---- MODULE Spec2Model ----
(***************************************************************************)
(* The ingestion pipeline of src/src/database/ingestion.py as a state      *)
(* machine: IngestionPipeline.process_date_range (chunk planning, the      *)
(* pagination loop, transformation, batch upserts with retries) and        *)
(* IngestionPipeline.ingest_batch over the observations table.             *)
(***************************************************************************)
EXTENDS Integers, Sequences, FiniteSets, TLC

(***************************************************************************)
(* Bounds of the model.                                                    *)
(***************************************************************************)
\* number of calendar days in the window the date ranges are drawn from
NumDays == 10
\* cap on the length of the list a split loop builds (the loop of
\* split_date_range_into_days need not stop; the cap keeps the model finite)
MaxSplit == 9
\* recursive_split_chunk's max_records default: the API limit per query
hard_limit == 10000

(***************************************************************************)
(* Calendar arithmetic of Python's datetime.date (proleptic Gregorian      *)
(* ordinals: ordinal 1 is 0001-01-01).                                     *)
(***************************************************************************)
IsLeap(y) == (y % 4 = 0) /\ ((y % 100 # 0) \/ (y % 400 = 0))

DaysInMonth(y, m) ==
    IF m = 2 THEN (IF IsLeap(y) THEN 29 ELSE 28)
    ELSE IF m \in {4, 6, 9, 11} THEN 30 ELSE 31

DaysBeforeYear(y) ==
    (y - 1) * 365 + ((y - 1) \div 4) - ((y - 1) \div 100) + ((y - 1) \div 400)

RECURSIVE DaysBeforeMonth(_, _)
DaysBeforeMonth(y, m) ==
    IF m = 1 THEN 0 ELSE DaysBeforeMonth(y, m - 1) + DaysInMonth(y, m - 1)

\* date(y, m, d).toordinal()
Ordinal(y, m, d) == DaysBeforeYear(y) + DaysBeforeMonth(y, m) + d

\* the first day of the window: 2023-12-23, so that the window crosses the
\* turn of the month and of the year
WindowStart == Ordinal(2023, 12, 23)
Days == WindowStart .. (WindowStart + NumDays - 1)
Years == 2023 .. 2025

YearOf(n) ==
    CHOOSE y \in Years : DaysBeforeYear(y) < n /\ n <= DaysBeforeYear(y + 1)
MonthOf(n) ==
    LET y == YearOf(n)
        k == n - DaysBeforeYear(y)
    IN  CHOOSE m \in 1..12 :
            DaysBeforeMonth(y, m) < k /\ k <= DaysBeforeMonth(y, m) + DaysInMonth(y, m)

(***************************************************************************)
(* datetime values: the day (an ordinal), the second of the day and the    *)
(* microsecond.  Comparison is lexicographic, as for datetime.             *)
(***************************************************************************)
LastSecond == 86399
DateTime(d, s, u) == [day |-> d, sec |-> s, us |-> u]
Midnight(d) == DateTime(d, 0, 0)
\* datetime(y, m, 1) - datetime.resolution of the following month
EndOfDay(d) == DateTime(d, LastSecond, 999999)

DtLt(a, b) ==
    \/ a.day < b.day
    \/ a.day = b.day /\ a.sec < b.sec
    \/ a.day = b.day /\ a.sec = b.sec /\ a.us < b.us
DtLe(a, b) == a = b \/ DtLt(a, b)
DtMin(a, b) == IF DtLt(b, a) THEN b ELSE a
\* dt + timedelta(days=k)
AddDays(dt, k) == [dt EXCEPT !.day = dt.day + k]
\* (b - a).days : timedelta normalises to 0 <= seconds, microseconds
DeltaDays(a, b) ==
    IF b.sec < a.sec \/ (b.sec = a.sec /\ b.us < a.us)
    THEN b.day - a.day - 1
    ELSE b.day - a.day
\* dt.date()
DateOf(dt) == dt.day

\* the first day of the month after current's, at current's time of day
NextMonth(cur) ==
    LET y == YearOf(cur.day)
        m == MonthOf(cur.day)
    IN  IF m = 12
        THEN [cur EXCEPT !.day = Ordinal(y + 1, 1, 1)]
        ELSE [cur EXCEPT !.day = Ordinal(y, m + 1, 1)]

\* current.replace(hour=23, minute=59, second=59)
ReplaceEndOfDay(dt) == [dt EXCEPT !.sec = LastSecond]
\* (dt + timedelta(seconds=1)).replace(hour=0, minute=0, second=0)
NextSecondAtMidnight(dt) ==
    IF dt.sec = LastSecond
    THEN [dt EXCEPT !.day = dt.day + 1, !.sec = 0]
    ELSE [dt EXCEPT !.sec = 0]

Chunk(s, e) == [start |-> s, end |-> e]
\* the calendar days a chunk asks the fetch function for
ChunkDays(c) == DateOf(c.start) .. DateOf(c.end)

(***************************************************************************)
(* Bounds on pages, batches and the environment.  The page size, the       *)
(* per-query ceiling and the batch size are scaled down from the program's *)
(* 1000, 10000 and 1000; the algorithm reads them only through comparisons *)
(* and sums.                                                               *)
(***************************************************************************)
\* limit: the page size asked of the fetch function
limit == 2
\* max_total_records: the API's ceiling on offset + limit for one query
max_total_records == 6
\* IngestionPipeline.batch_size
batch_size == 3
\* the value of the optional max_records argument, when it is given
MaxRecordsCap == 3
\* the number of storage failures the environment may inject
MaxStoreFaults == 4
\* the number of calls of process_date_range / ingest_batch in one behaviour
MaxRuns == 2

(***************************************************************************)
(* State.                                                                  *)
(***************************************************************************)
VARIABLES
    \* the observations table (a set of rows), the clock datetime.now() reads,
    \* and the number of storage failures injected so far
    observations, now, store_faults,
    \* the salt of Python's str hash in the running process
    hashseed,
    \* IngestionPipeline fields
    total_ingested, total_failed,
    \* position in process_date_range / ingest_batch
    pc,
    \* arguments of process_date_range
    start_date, end_date, skip_existing, auto_split_large_chunks, max_records,
    \* get_date_chunks / split_date_range_into_*: loop variables
    current, chunks,
    \* process_date_range: monthly_chunks, the pending calls of
    \* recursive_split_chunk (in call order), all_chunks
    monthly_chunks, todo, all_chunks,
    \* for each entry of all_chunks: did its count probe exceed max_records
    all_over,
    \* the chunk loop: index of the chunk in hand, counters, and the outcome
    \* of every chunk consumed so far
    idx, processed_chunks, skipped_chunks, status,
    \* the calls of progress_callback made by the last step that made any:
    \* (current, total) of each
    progress,
    \* the pagination loop, the offsets it has called the fetch function with,
    \* and whether a page came back longer than limit
    all_records, offset, page_offsets, long_page,
    \* the batch loop
    db_records, bi,
    \* ingest_batch: records, retry_count, who called, the sleeps and the
    \* upsert attempts so far
    batch, retry_count, ret, sleeps, attempts,
    \* the fetch function: whether the first call is repeated against the
    \* fetch results it saw, the first run's calls, the calls of this run, the last outcome
    same_fetch, fetch_log, call_no, last_response,
    \* the runs: their number, the value the last one returned, and the table
    \* as the first run left it
    run, result, snapshot,
    \* transform_artportalen_to_db_record looked at on its own: the raw record,
    \* what the function returned for it, and what it returned the second time
    raw_record, transformed, transformed_again,
    \* the schema of the database file: whether the connection is open,
    \* whether the observations table exists, the rows of the schema_version
    \* table (<<>> when there is no such table, <<rows>> when there is), and the calls of the
    \* schema functions so far with what they returned
    connection, observations_table, schema_version, schema_log,
    \* the UnifiedAPIClient: its fields, the arguments of the last
    \* search_occurrences, the clients that call went to, and what it returned
    use_database, database_available, database_client, artportalen_client,
    query, calls, answer,
    \* the merge of a mixed range: the results of the database and of the API,
    \* the offset and the limit asked for, and the merged results
    db_results, api_results, merge_offset, merge_limit, merged,
    \* the connection manager: the instance the class holds, and the calls
    \* made so far
    instance, manager_log,
    \* check_existing_data looked at on its own: the call and what it returned
    coverage,
    \* _deduplicate_results: the lists it is given and the list it returns
    results_list, deduplicated

storeVars == <<observations, now, store_faults>>
statVars == <<total_ingested, total_failed>>
argVars == <<start_date, end_date, skip_existing, auto_split_large_chunks, max_records>>
loopVars == <<current, chunks>>
planVars == <<monthly_chunks, todo, all_chunks, all_over>>
chunkVars == <<idx, processed_chunks, skipped_chunks, status, progress>>
pageVars == <<all_records, offset, page_offsets, long_page>>
batchVars == <<db_records, bi>>
ingestVars == <<batch, retry_count, ret, sleeps, attempts>>
fetchVars == <<same_fetch, fetch_log, call_no, last_response>>
runVars == <<run, result, snapshot>>
transformVars == <<raw_record, transformed, transformed_again>>
\* the state of what is looked at apart from the pipeline
schemaVars == <<connection, observations_table, schema_version, schema_log>>
routerVars == <<use_database, database_available, database_client, artportalen_client,
                query, calls, answer>>
mergeVars == <<db_results, api_results, merge_offset, merge_limit, merged>>
managerVars == <<instance, manager_log>>
coverageVars == <<coverage>>
dedupVars == <<results_list, deduplicated>>
otherVars == <<transformVars, schemaVars, routerVars, mergeVars, managerVars,
               coverageVars, dedupVars>>
vars == <<observations, now, store_faults, hashseed, total_ingested, total_failed,
          pc, start_date, end_date, skip_existing, auto_split_large_chunks,
          max_records, current, chunks, monthly_chunks, todo, all_chunks,
          all_over, idx, processed_chunks, skipped_chunks, status, progress, all_records,
          offset, page_offsets, long_page, db_records, bi, batch, retry_count, ret, sleeps,
          attempts,
          same_fetch, fetch_log, call_no, last_response, run, result, snapshot,
          raw_record, transformed, transformed_again,
          connection, observations_table, schema_version, schema_log,
          use_database, database_available, database_client, artportalen_client,
          query, calls, answer,
          db_results, api_results, merge_offset, merge_limit, merged,
          instance, manager_log, coverage, results_list, deduplicated>>

(***************************************************************************)
(* Raw records and the fetch function (the environment).                   *)
(***************************************************************************)
\* a raw record: occurrenceId (0: no usable id), the day of its event date,
\* the species and the latitude ("null": none)
Raw(id, d, sp, lat) == [occurrenceId |-> id, date |-> d, species |-> sp, latitude |-> lat]
\* the records the remote source holds for a day, in the order it lists them:
\* two records with ids, one with no id, one with no latitude, and a later
\* version of the first
RemoteRecords(d) ==
    LET k == 10 * (d - WindowStart)
    IN  << Raw(k + 1, d, "a", "57.7"), Raw(k + 2, d, "b", "57.7"),
           Raw(0, d, "c", "57.7"), Raw(k + 3, d, "d", "null"),
           Raw(k + 1, d, "e", "57.7") >>
\* a page of n records from the offset on (the listing wraps around)
Page(n, off, d) ==
    [i \in 1..n |-> RemoteRecords(d)[((off + i - 1) % Len(RemoteRecords(d))) + 1]]
\* page lengths: empty, short, full, and longer than asked for
PageLengths == {0, 1, limit, limit + 1}

FetchArgs(s, e, off) == [start |-> DateOf(s), end |-> DateOf(e), offset |-> off, limit |-> limit]
\* what a call of the fetch function can do: raise, return an error
\* response, or return results and a count.  A response is written with
\* the part of it the caller reads: the probe reads the count, the
\* pagination loop reads the results.
Failures ==
    { [kind |-> "raise", results |-> <<>>, count |-> 0],
      [kind |-> "error", results |-> <<>>, count |-> 0] }
ProbeResponses(args) ==
    Failures \cup { [kind |-> "ok", results |-> <<>>, count |-> c] :
                     c \in {hard_limit, hard_limit + 1} }
PageResponses(args) ==
    Failures \cup { [kind |-> "ok", results |-> Page(n, args.offset, args.start), count |-> 0] :
                     n \in PageLengths }
\* the responses of this call: when the first call is repeated against the
\* same fetch results, the response the first run got for the same call
Responses(args, all) ==
    IF /\ same_fetch
       /\ run > 1
       /\ call_no < Len(fetch_log)
       /\ fetch_log[call_no + 1].args = args
    THEN {fetch_log[call_no + 1].resp}
    ELSE all
\* the outcomes of a call that did not return results
FailureKinds == {"raise", "error"}
\* bookkeeping of one call of the fetch function
Fetched(args, r) ==
    /\ call_no' = call_no + 1
    /\ last_response' = r.kind
    /\ fetch_log' = IF same_fetch /\ run = 1
                    THEN Append(fetch_log, [args |-> args, resp |-> r])
                    ELSE fetch_log
    /\ UNCHANGED same_fetch

(***************************************************************************)
(* transform_artportalen_to_db_record.                                     *)
(***************************************************************************)
Null == [null |-> TRUE]
\* f"artportalen_{hash(str(record))}": a function of the record's text and
\* of the salt of the process
HashId(seed, raw) == <<"artportalen", seed, raw.date, raw.species, raw.latitude>>
GivenId(n) == <<"id", n>>
transform_artportalen_to_db_record(raw, seed) ==
    IF raw.latitude = "null"
    THEN Null
    ELSE [id |-> IF raw.occurrenceId # 0 THEN GivenId(raw.occurrenceId) ELSE HashId(seed, raw),
          observation_date |-> raw.date,
          species_name |-> raw.species,
          latitude |-> raw.latitude,
          api_source |-> "artportalen"]

(***************************************************************************)
(* Chunk planning.                                                         *)
(***************************************************************************)
\* a condition that leaves out the day of the end date
RowInRangeBeforeEnd(row, s, e) ==
    /\ DateOf(s) <= row.observation_date
    /\ row.observation_date < DateOf(e)
\* WHERE observation_date >= ? AND observation_date <= ?, with
\* start_date.date() and end_date.date()
RowInRange(row, s, e) ==
    /\ DateOf(s) <= row.observation_date
    /\ row.observation_date <= DateOf(e)
\* check_existing_data on a table, the query raising or not:
\* result[0] > 0, and False when the query raises
CheckExistingData(table, s, e, raises) ==
    IF raises THEN FALSE
    ELSE \E row \in table : RowInRange(row, s, e)
\* check_existing_data: the possible results.  The query counts the rows
\* whose observation_date lies in [start.date(), end.date()]; when the
\* query raises, the result is False.
check_existing_data(s, e) ==
    {CheckExistingData(observations, s, e, raises) : raises \in BOOLEAN}

\* duration = (chunk_end - chunk_start).days + 1
Duration(c) == DeltaDays(c.start, c.end) + 1

\* a split rule that leaves two-day chunks whole
SplitGranularityFromThreeDays(duration) ==
    IF duration > 7 THEN "weeks"
    ELSE IF duration > 2 THEN "days"
    ELSE "none"

\* how recursive_split_chunk splits a chunk whose count exceeds the limit
SplitGranularity(duration) ==
    IF duration > 7 THEN "weeks"
    ELSE IF duration > 1 THEN "days"
    ELSE "none"

\* process_date_range is called: get_date_chunks starts
process_date_range ==
    /\ pc = "idle"
    /\ run' = run + 1
    /\ now' = now + 1
    /\ current' = start_date
    /\ chunks' = <<>>
    /\ monthly_chunks' = <<>>
    /\ todo' = <<>>
    /\ all_chunks' = <<>>
    /\ all_over' = <<>>
    /\ idx' = 1
    /\ processed_chunks' = 0
    /\ skipped_chunks' = 0
    /\ status' = <<>>
    /\ progress' = <<>>
    /\ call_no' = 0
    /\ pc' = "months"
    /\ UNCHANGED <<observations, store_faults, hashseed, statVars, argVars, otherVars,
                   pageVars, batchVars, ingestVars, same_fetch, fetch_log,
                   last_response, result, snapshot>>

\* get_date_chunks: one iteration of its loop, or its return
get_date_chunks ==
    /\ pc = "months"
    /\ IF DtLt(current, end_date)
       THEN LET next_month == NextMonth(current)
                chunk_end == DtMin(AddDays(next_month, -1), end_date)
            IN  /\ chunks' = Append(chunks, Chunk(current, chunk_end))
                /\ current' = next_month
                /\ UNCHANGED <<pc, monthly_chunks, todo>>
       ELSE /\ monthly_chunks' = chunks
            /\ todo' = chunks
            /\ chunks' = <<>>
            /\ pc' = "split"
            /\ UNCHANGED current
    /\ UNCHANGED <<storeVars, hashseed, statVars, argVars, otherVars, all_chunks, all_over,
                   chunkVars, pageVars, batchVars, ingestVars, fetchVars, runVars>>

\* recursive_split_chunk returns one chunk of the given disposition
Emit(c, type, over) ==
    /\ all_chunks' = Append(all_chunks, [start |-> c.start, end |-> c.end, type |-> type])
    /\ all_over' = Append(all_over, over)
    /\ todo' = Tail(todo)
    /\ UNCHANGED <<pc, storeVars, hashseed, statVars, argVars, otherVars, loopVars, monthly_chunks,
                   chunkVars, pageVars, batchVars, ingestVars, runVars>>

Splitting == pc = "split" /\ todo # <<>>
NotSkipped(c) == ~skip_existing \/ FALSE \in check_existing_data(c.start, c.end)
ProbeArgs(c) == FetchArgs(c.start, c.end, 0)
\* total_count = test_response.get("count") or test_response.get("totalCount", 0)
ProbedCount(r) == IF r.kind = "ok" THEN r.count ELSE 0

\* data already exists: the chunk is skipped, without a probe
recursive_split_chunk_skip ==
    /\ Splitting
    /\ skip_existing
    /\ TRUE \in check_existing_data(todo[1].start, todo[1].end)
    /\ Emit(todo[1], "skip", FALSE)
    /\ UNCHANGED fetchVars

\* auto-splitting is disabled: the chunk is processed as it is
recursive_split_chunk_no_probe ==
    /\ Splitting
    /\ NotSkipped(todo[1])
    /\ ~auto_split_large_chunks
    /\ Emit(todo[1], "process", FALSE)
    /\ UNCHANGED fetchVars

\* a probe that raises makes the planner drop the chunk
recursive_split_chunk_probe_raises_and_drops ==
    /\ Splitting
    /\ NotSkipped(todo[1])
    /\ auto_split_large_chunks
    /\ \E r \in Responses(ProbeArgs(todo[1]), ProbeResponses(ProbeArgs(todo[1]))) :
          /\ r.kind = "raise"
          /\ Fetched(ProbeArgs(todo[1]), r)
          /\ todo' = Tail(todo)
          /\ UNCHANGED <<pc, storeVars, hashseed, statVars, argVars, otherVars, loopVars,
                         monthly_chunks, all_chunks, all_over, chunkVars, pageVars,
                         batchVars, ingestVars, runVars>>
\* the probe raises: the chunk is processed as it is
recursive_split_chunk_probe_raises ==
    /\ Splitting
    /\ NotSkipped(todo[1])
    /\ auto_split_large_chunks
    /\ \E r \in Responses(ProbeArgs(todo[1]), ProbeResponses(ProbeArgs(todo[1]))) :
          /\ r.kind = "raise"
          /\ Fetched(ProbeArgs(todo[1]), r)
          /\ Emit(todo[1], "process", FALSE)

\* the probe reports a count within the limit (an error response counts 0)
recursive_split_chunk_within_limit ==
    /\ Splitting
    /\ NotSkipped(todo[1])
    /\ auto_split_large_chunks
    /\ \E r \in Responses(ProbeArgs(todo[1]), ProbeResponses(ProbeArgs(todo[1]))) :
          /\ r.kind # "raise"
          /\ ~(ProbedCount(r) > hard_limit)
          /\ Fetched(ProbeArgs(todo[1]), r)
          /\ Emit(todo[1], "process", FALSE)

\* the probe reports a count over the limit: the chunk is split into weeks
\* or days, or, when it is one day long, processed as it is
recursive_split_chunk_over_limit ==
    /\ Splitting
    /\ NotSkipped(todo[1])
    /\ auto_split_large_chunks
    /\ \E r \in Responses(ProbeArgs(todo[1]), ProbeResponses(ProbeArgs(todo[1]))) :
          /\ r.kind # "raise"
          /\ ProbedCount(r) > hard_limit
          /\ Fetched(ProbeArgs(todo[1]), r)
          /\ LET how == SplitGranularity(Duration(todo[1]))
             IN  IF how = "none"
                 THEN Emit(todo[1], "process", TRUE)
                 ELSE /\ pc' = how
                      /\ current' = todo[1].start
                      /\ chunks' = <<>>
                      /\ UNCHANGED <<storeVars, hashseed, statVars, argVars, otherVars, planVars,
                                     chunkVars, pageVars, batchVars, ingestVars, runVars>>

\* split_date_range_into_weeks: one iteration of its loop, or its return
\* into recursive_split_chunk, which recurses on the weekly chunks in order
split_date_range_into_weeks ==
    /\ pc = "weeks"
    /\ IF DtLt(current, todo[1].end)
       THEN LET week_end == DtMin(AddDays(current, 6), todo[1].end)
            IN  /\ chunks' = Append(chunks, Chunk(current, week_end))
                /\ current' = AddDays(week_end, 1)
                /\ UNCHANGED <<pc, todo>>
       ELSE /\ todo' = chunks \o Tail(todo)
            /\ chunks' = <<>>
            /\ pc' = "split"
            /\ UNCHANGED current
    /\ UNCHANGED <<storeVars, hashseed, statVars, argVars, otherVars, monthly_chunks, all_chunks,
                   all_over, chunkVars, pageVars, batchVars, ingestVars, fetchVars,
                   runVars>>

\* split_date_range_into_days: one iteration of its loop, or its return
split_date_range_into_days ==
    /\ pc = "days"
    /\ IF DtLe(current, todo[1].end)
       THEN LET chunk_end == DtMin(ReplaceEndOfDay(current), todo[1].end)
            IN  /\ Len(chunks) < MaxSplit
                /\ chunks' = Append(chunks, Chunk(current, chunk_end))
                /\ current' = NextSecondAtMidnight(chunk_end)
                /\ UNCHANGED <<pc, todo>>
       ELSE /\ todo' = chunks \o Tail(todo)
            /\ chunks' = <<>>
            /\ pc' = "split"
            /\ UNCHANGED current
    /\ UNCHANGED <<storeVars, hashseed, statVars, argVars, otherVars, monthly_chunks, all_chunks,
                   all_over, chunkVars, pageVars, batchVars, ingestVars, fetchVars,
                   runVars>>

\* every monthly chunk has been expanded: all_chunks is the plan
plan_complete ==
    /\ pc = "split"
    /\ todo = <<>>
    /\ pc' = "chunks"
    /\ UNCHANGED <<storeVars, hashseed, statVars, argVars, otherVars, loopVars, planVars, chunkVars,
                   pageVars, batchVars, ingestVars, fetchVars, runVars>>

Planning ==
    \/ process_date_range
    \/ get_date_chunks
    \/ recursive_split_chunk_skip
    \/ recursive_split_chunk_no_probe
    \/ recursive_split_chunk_probe_raises
    \/ recursive_split_chunk_within_limit
    \/ recursive_split_chunk_over_limit
    \/ split_date_range_into_weeks
    \/ split_date_range_into_days
    \/ plan_complete

(***************************************************************************)
(* The observations table and ingest_batch.                                *)
(***************************************************************************)
\* IngestionPipeline.__init__ defaults
max_retries == 3
retry_delay == 1

StoredRow(rec, created, updated) ==
    [id |-> rec.id, observation_date |-> rec.observation_date,
     species_name |-> rec.species_name, latitude |-> rec.latitude,
     api_source |-> rec.api_source, created_at |-> created, updated_at |-> updated]
\* the columns of a row other than the timestamps
Content(row) ==
    [id |-> row.id, observation_date |-> row.observation_date,
     species_name |-> row.species_name, latitude |-> row.latitude,
     api_source |-> row.api_source]
RowsWithId(table, id) == {row \in table : row.id = id}

\* an INSERT that ignores a conflicting row instead of updating it
UpsertKeepingOld(table, rec, t) ==
    IF RowsWithId(table, rec.id) # {}
    THEN table
    ELSE table \cup {StoredRow(rec, t, t)}

\* an upsert that writes created_at anew on every conflict
UpsertRefreshingCreatedAt(table, rec, t) ==
    (table \ RowsWithId(table, rec.id)) \cup {StoredRow(rec, t, t)}

\* INSERT ... ON CONFLICT (id) DO UPDATE SET <every column but id and
\* created_at> = EXCLUDED.<column>
Upsert(table, rec, t) ==
    IF RowsWithId(table, rec.id) # {}
    THEN (table \ RowsWithId(table, rec.id))
         \cup {StoredRow(rec, old.created_at, t) : old \in RowsWithId(table, rec.id)}
    ELSE table \cup {StoredRow(rec, t, t)}

\* executemany: the statement runs once per record, in order
RECURSIVE ExecuteMany(_, _, _)
ExecuteMany(table, recs, t) ==
    IF recs = <<>> THEN table
    ELSE ExecuteMany(Upsert(table, Head(recs), t), Tail(recs), t)

\* time.sleep(self.retry_delay * (retry_count + 1))
SleepBeforeRetry(attempt) == retry_delay * (attempt + 1)

\* a retry rule that allows one attempt more
MayRetryOnceMore(attempt) == attempt <= max_retries
\* if retry_count < self.max_retries
MayRetry(attempt) == attempt < max_retries

\* ingest_batch returns to its caller
ReturnFromIngest == pc' = IF ret = "run" THEN "batches" ELSE "idle"

\* a count of one per batch
RecordCountOne(recs) == 1
\* len(records)
RecordCount(recs) == Len(recs)

\* the batch insert and the commit succeed
ingest_batch_succeeds ==
    /\ pc = "ingest"
    /\ observations' = ExecuteMany(observations, batch, now)
    /\ total_ingested' = total_ingested + RecordCount(batch)
    /\ attempts' = attempts + 1
    /\ ReturnFromIngest
    /\ UNCHANGED <<now, store_faults, hashseed, total_failed, argVars, otherVars, loopVars, planVars,
                   chunkVars, pageVars, batchVars, batch, retry_count, ret, sleeps,
                   fetchVars, runVars>>

\* the attempt raises and is rolled back; the batch is tried again after a sleep
ingest_batch_retries ==
    /\ pc = "ingest"
    /\ store_faults < MaxStoreFaults
    /\ store_faults' = store_faults + 1
    /\ attempts' = attempts + 1
    /\ MayRetry(retry_count)
    /\ sleeps' = Append(sleeps, SleepBeforeRetry(retry_count))
    /\ retry_count' = retry_count + 1
    /\ UNCHANGED <<observations, now, hashseed, statVars, pc, argVars, otherVars, loopVars, planVars,
                   chunkVars, pageVars, batchVars, batch, ret, fetchVars, runVars>>

\* the attempt raises and is rolled back; no retry is left: the batch is dropped
ingest_batch_gives_up ==
    /\ pc = "ingest"
    /\ store_faults < MaxStoreFaults
    /\ store_faults' = store_faults + 1
    /\ attempts' = attempts + 1
    /\ ~MayRetry(retry_count)
    /\ total_failed' = total_failed + RecordCount(batch)
    /\ ReturnFromIngest
    /\ UNCHANGED <<observations, now, hashseed, total_ingested, argVars, otherVars, loopVars,
                   planVars, chunkVars, pageVars, batchVars, batch, retry_count, ret,
                   sleeps, fetchVars, runVars>>

IngestAttempts ==
    \/ ingest_batch_succeeds
    \/ ingest_batch_retries
    \/ ingest_batch_gives_up

(***************************************************************************)
(* process_date_range: the chunk loop.                                     *)
(***************************************************************************)
InChunkLoop == pc = "chunks" /\ idx <= Len(all_chunks)
chunk == all_chunks[idx]
\* progress_callback(current, total_chunks, message)
Progress(n) == [current |-> n, total |-> Len(all_chunks)]
\* a failure reported with the count of the chunk after it
ProgressOfFailureOneAhead(processed) == processed + 2
\* the except clause reports processed_chunks + 1, before it counts the chunk
ProgressOfFailure(processed) == processed + 1
\* a loop that takes the same chunk again
NextChunkKeepingIndex(outcome, processed) ==
    /\ status' = Append(status, outcome)
    /\ processed_chunks' = processed
    /\ idx' = idx
    /\ pc' = "chunks"
    /\ all_records' = <<>>
    /\ offset' = 0
    /\ page_offsets' = <<>>
    /\ long_page' = FALSE
    /\ db_records' = <<>>
    /\ bi' = 0
    /\ batch' = <<>>
    /\ retry_count' = 0
    /\ sleeps' = <<>>
    /\ attempts' = 0
    /\ UNCHANGED ret
\* the chunk in hand is finished: the next one is taken (the locals of the
\* finished chunk are dead from here on, and are cleared)
NextChunk(outcome, processed) ==
    /\ status' = Append(status, outcome)
    /\ processed_chunks' = processed
    /\ idx' = idx + 1
    /\ pc' = "chunks"
    /\ all_records' = <<>>
    /\ offset' = 0
    /\ page_offsets' = <<>>
    /\ long_page' = FALSE
    /\ db_records' = <<>>
    /\ bi' = 0
    /\ batch' = <<>>
    /\ retry_count' = 0
    /\ sleeps' = <<>>
    /\ attempts' = 0
    /\ UNCHANGED ret

\* a 'skip' chunk that is counted as skipped but not as processed
process_chunk_skip_uncounted ==
    /\ InChunkLoop
    /\ chunk.type = "skip"
    /\ skipped_chunks' = skipped_chunks + 1
    /\ progress' = <<Progress(processed_chunks)>>
    /\ NextChunk("SKIPPED", processed_chunks)
    /\ UNCHANGED <<storeVars, hashseed, statVars, argVars, otherVars, loopVars, planVars,
                   fetchVars, runVars>>
\* a 'skip' chunk
process_chunk_skip ==
    /\ InChunkLoop
    /\ chunk.type = "skip"
    /\ skipped_chunks' = skipped_chunks + 1
    /\ progress' = <<Progress(processed_chunks + 1)>>
    /\ NextChunk("SKIPPED", processed_chunks + 1)
    /\ UNCHANGED <<storeVars, hashseed, statVars, argVars, otherVars, loopVars, planVars,
                   fetchVars, runVars>>

\* a 'process' chunk: the pagination loop starts
process_chunk_fetch ==
    /\ InChunkLoop
    /\ chunk.type = "process"
    /\ all_records' = <<>>
    /\ offset' = 0
    /\ page_offsets' = <<>>
    /\ long_page' = FALSE
    /\ progress' = <<Progress(processed_chunks)>>
    /\ pc' = "page"
    /\ UNCHANGED <<storeVars, hashseed, statVars, argVars, otherVars, loopVars, planVars,
                   idx, processed_chunks, skipped_chunks, status,
                   batchVars, ingestVars, fetchVars, runVars>>

(***************************************************************************)
(* The pagination loop.                                                    *)
(***************************************************************************)
PageArgs == FetchArgs(chunk.start, chunk.end, offset)
Take(s, n) == SubSeq(s, 1, IF n < Len(s) THEN n ELSE Len(s))
Cap == MaxRecordsCap

\* a rule that never lets a fetch failure fail the chunk
IsFirstPageNever(off) == FALSE
\* a rule that lets every fetch failure fail the chunk
IsFirstPageAlways(off) == TRUE
\* if offset == 0: raise
IsFirstPage(off) == off = 0

\* a ceiling that is applied to the offset alone
CeilingReachedLate(off) == off > max_total_records
\* if offset + limit > max_total_records
CeilingReached(off) == off + limit > max_total_records

\* the API's ceiling would be exceeded: break
page_limit_reached ==
    /\ pc = "page"
    /\ CeilingReached(offset)
    /\ pc' = "fetched"
    /\ UNCHANGED <<storeVars, hashseed, statVars, argVars, otherVars, loopVars, planVars, chunkVars,
                   pageVars, batchVars, ingestVars, fetchVars, runVars>>

\* the fetch function raises or returns an error response: on the first
\* page the chunk fails, on a later page the pagination stops
fetch_page_fails ==
    /\ pc = "page"
    /\ ~CeilingReached(offset)
    /\ \E r \in Responses(PageArgs, PageResponses(PageArgs)) :
          /\ r.kind \in {"raise", "error"}
          /\ Fetched(PageArgs, r)
    /\ IF IsFirstPage(offset)
       THEN /\ total_failed' = total_failed + 1
            /\ progress' = <<Progress(processed_chunks),
                             Progress(ProgressOfFailure(processed_chunks))>>
            /\ NextChunk("FAILED", processed_chunks + 1)
            /\ UNCHANGED <<total_ingested, skipped_chunks>>
       ELSE /\ pc' = "fetched"
            /\ page_offsets' = Append(page_offsets, offset)
            /\ progress' = <<Progress(processed_chunks)>>
            /\ UNCHANGED <<statVars, idx, processed_chunks, skipped_chunks, status,
                           all_records, offset, long_page, batchVars, ingestVars>>
    /\ UNCHANGED <<storeVars, hashseed, argVars, otherVars, loopVars, planVars, runVars>>

\* the fetch function returns a page
fetch_page_ok ==
    /\ pc = "page"
    /\ ~CeilingReached(offset)
    /\ \E r \in Responses(PageArgs, PageResponses(PageArgs)) :
          /\ r.kind = "ok"
          /\ long_page' = (long_page \/ Len(r.results) > limit)
          /\ Fetched(PageArgs, r)
          /\ LET remaining == Cap - Len(all_records)
                 records == IF max_records = "cap" THEN Take(r.results, remaining)
                            ELSE r.results
                 extended == all_records \o records
             IN  IF max_records = "cap" /\ remaining <= 0
                 THEN /\ pc' = "fetched"
                      /\ UNCHANGED <<all_records, offset>>
                 ELSE /\ all_records' = extended
                      /\ IF \/ Len(records) < limit
                            \/ (max_records = "cap" /\ Len(extended) >= Cap)
                            \/ Len(extended) >= max_total_records
                         THEN pc' = "fetched" /\ UNCHANGED offset
                         ELSE pc' = "page" /\ offset' = offset + Len(records)
    /\ page_offsets' = Append(page_offsets, offset)
    /\ progress' = <<Progress(processed_chunks)>>
    /\ UNCHANGED <<storeVars, hashseed, statVars, argVars, otherVars, loopVars, planVars,
                   idx, processed_chunks, skipped_chunks, status,
                   batchVars, ingestVars, runVars>>

(***************************************************************************)
(* Transformation and the batch loop.                                      *)
(***************************************************************************)
\* a transformation that also drops the records whose id had to be derived
TransformAllWithGivenIds(raws, seed) ==
    SelectSeq([i \in 1..Len(raws) |-> transform_artportalen_to_db_record(raws[i], seed)],
              LAMBDA r : r # Null /\ r.id[1] = "id")
RECURSIVE TransformAll(_, _)
TransformAll(raws, seed) ==
    IF raws = <<>> THEN <<>>
    ELSE LET db_record == transform_artportalen_to_db_record(Head(raws), seed)
         IN  (IF db_record = Null THEN <<>> ELSE <<db_record>>)
             \o TransformAll(Tail(raws), seed)

\* if not all_records: the chunk counts as processed
chunk_without_records ==
    /\ pc = "fetched"
    /\ all_records = <<>>
    /\ NextChunk("DONE", processed_chunks + 1)
    /\ UNCHANGED <<storeVars, hashseed, statVars, argVars, otherVars, loopVars, planVars,
                   skipped_chunks, progress, fetchVars, runVars>>

\* every fetched record is transformed; nulls are dropped
transform_records ==
    /\ pc = "fetched"
    /\ all_records # <<>>
    /\ db_records' = TransformAll(all_records, hashseed)
    /\ bi' = 0
    /\ pc' = "batches"
    /\ UNCHANGED <<storeVars, hashseed, statVars, argVars, otherVars, loopVars, planVars, chunkVars,
                   pageVars, ingestVars, fetchVars, runVars>>

\* for i in range(0, len(db_records), batch_size): ingest_batch(db_records[i:i+batch_size])
next_batch ==
    /\ pc = "batches"
    /\ bi < Len(db_records)
    /\ batch' = SubSeq(db_records, bi + 1,
                       IF bi + batch_size < Len(db_records) THEN bi + batch_size
                       ELSE Len(db_records))
    /\ retry_count' = 0
    /\ sleeps' = <<>>
    /\ attempts' = 0
    /\ ret' = "run"
    /\ bi' = bi + batch_size
    /\ pc' = "ingest"
    /\ UNCHANGED <<storeVars, hashseed, statVars, argVars, otherVars, loopVars, planVars, chunkVars,
                   pageVars, db_records, fetchVars, runVars>>

\* the batch loop is over: the chunk counts as processed
chunk_processed ==
    /\ pc = "batches"
    /\ ~(bi < Len(db_records))
    /\ progress' = <<Progress(processed_chunks + 1)>>
    /\ NextChunk("DONE", processed_chunks + 1)
    /\ UNCHANGED <<storeVars, hashseed, statVars, argVars, otherVars, loopVars, planVars,
                   skipped_chunks, fetchVars, runVars>>

\* success_rate >= 0.8 or skipped_chunks == total_chunks
Success(total, processed, skipped) ==
    \/ (IF total > skipped
        THEN 5 * (processed - skipped) >= 4 * (IF total - skipped > 1 THEN total - skipped ELSE 1)
        ELSE TRUE)
    \/ skipped = total

\* the chunk loop is over: process_date_range returns its statistics
process_date_range_returns ==
    /\ pc = "chunks"
    /\ idx > Len(all_chunks)
    /\ result' = [success |-> Success(Len(all_chunks), processed_chunks, skipped_chunks),
                  total_chunks |-> Len(all_chunks),
                  processed_chunks |-> processed_chunks,
                  skipped_chunks |-> skipped_chunks,
                  total_ingested |-> total_ingested,
                  total_failed |-> total_failed]
    /\ snapshot' = IF run = 1 THEN observations ELSE snapshot
    /\ pc' = "done"
    /\ UNCHANGED <<storeVars, hashseed, statVars, argVars, otherVars, loopVars, planVars, chunkVars,
                   pageVars, batchVars, ingestVars, fetchVars, run>>

Processing ==
    \/ process_chunk_skip
    \/ process_chunk_fetch
    \/ page_limit_reached
    \/ fetch_page_fails
    \/ fetch_page_ok
    \/ chunk_without_records
    \/ transform_records
    \/ next_batch
    \/ chunk_processed
    \/ process_date_range_returns

(***************************************************************************)
(* What a caller does between two runs.                                    *)
(***************************************************************************)
Seeds == {1, 2}

\* the same pipeline object is used for another call
call_again ==
    /\ pc = "done"
    /\ run < MaxRuns
    /\ pc' = "idle"
    /\ UNCHANGED <<storeVars, hashseed, statVars, argVars, otherVars, loopVars, planVars, chunkVars,
                   pageVars, batchVars, ingestVars, fetchVars, runVars>>

\* IngestionPipeline(connection) is constructed again, in the same process
\* or in a new one (whose str hash has another salt)
IngestionPipeline ==
    /\ pc = "done"
    /\ run < MaxRuns
    /\ hashseed' \in Seeds
    /\ total_ingested' = 0
    /\ total_failed' = 0
    /\ pc' = "idle"
    /\ UNCHANGED <<storeVars, argVars, otherVars, loopVars, planVars, chunkVars, pageVars,
                   batchVars, ingestVars, fetchVars, runVars>>

Callers ==
    \/ call_again
    \/ IngestionPipeline

(***************************************************************************)
(* ingest_batch called directly, as the tests do.                          *)
(***************************************************************************)
\* the number of direct calls of ingest_batch in one behaviour
MaxCalls == 3
DbRecord(n, d, sp) ==
    [id |-> GivenId(n), observation_date |-> d, species_name |-> sp,
     latitude |-> "57.7", api_source |-> "artportalen"]
DbRecords ==
    {DbRecord(1, WindowStart, "a"), DbRecord(1, WindowStart + 1, "e"),
     DbRecord(2, WindowStart, "b")}
Batches ==
    {<<>>} \cup {<<r>> : r \in DbRecords} \cup {<<r, q>> : r \in DbRecords, q \in DbRecords}

ingest_batch ==
    /\ pc = "idle"
    /\ run < MaxCalls
    /\ run' = run + 1
    /\ now' = now + 1
    /\ \E records \in Batches :
          /\ batch' = records
          /\ pc' = IF records = <<>> THEN "idle" ELSE "ingest"
    /\ retry_count' = 0
    /\ sleeps' = <<>>
    /\ attempts' = 0
    /\ ret' = "direct"
    /\ UNCHANGED <<observations, store_faults, hashseed, statVars, argVars, otherVars, loopVars,
                   planVars, chunkVars, pageVars, batchVars, fetchVars, result,
                   snapshot>>

(***************************************************************************)
(* transform_artportalen_to_db_record, field by field.                     *)
(*                                                                         *)
(* A raw record is a dictionary.  A scalar field is "absent" (no such      *)
(* key), "none" (None), or a value.  A nested object is absent, something  *)
(* that is not a dictionary, or a dictionary of scalar fields.             *)
(***************************************************************************)
\* coordinate values: 0.0, a number, a numeric string, an empty string and
\* a string that is no number
CoordinateValues == {"absent", "none", "zero", "57.7", "'11.9'", "", "abc"}
\* ids: 0, an empty string and two ids
IdValues == {"absent", "none", "zero", "", "test-123", "test-456"}
\* the truth value Python's `or` gives a field
Truthy(v) == v \notin {"absent", "none", "zero", ""}
\* a or b
Or(a, b) == IF Truthy(a) THEN a ELSE b
\* dict.get(key): None for a missing key
Get(v) == IF v = "absent" THEN "none" ELSE v
\* float(v): the values float() accepts
Coercible(v) == v \in {"zero", "57.7", "'11.9'"}
\* float(v)
Float(v) == IF v = "zero" THEN "0.0" ELSE IF v = "'11.9'" THEN "11.9" ELSE v

\* a date field: absent, None, or a string made of a date part, a time part
\* and a zone
DateValue(kind, d, t, z) == [kind |-> kind, d |-> d, t |-> t, z |-> z]
AbsentDate == DateValue("absent", "", "", "")
NoneDate == DateValue("none", "", "", "")
EmptyDate == DateValue("str", "", "", "")
\* the ISO forms of a calendar date: the date alone, with a time, with a time
\* and an offset, with a time and Z
IsoForms(d) ==
    {DateValue("str", d, "", ""), DateValue("str", d, "T10:00:00", ""),
     DateValue("str", d, "T10:00:00", "+01:00"), DateValue("str", d, "T10:00:00", "Z")}
CalendarDates == {"2024-01-15", "2024-02-20"}
\* a string that is no ISO date
BadDate == DateValue("str", "15/01/2024", "", "")
DateTruthy(v) == v.kind = "str" /\ v.d # ""
DateOr(a, b) == IF DateTruthy(a) THEN a ELSE b
DateGet(v) == IF v.kind = "absent" THEN NoneDate ELSE v

\* observation_date.split('T')[0].split('+')[0]
DateStr(v) ==
    LET before_t == IF v.t # "" THEN DateValue("str", v.d, "", "") ELSE v
    IN  IF before_t.z = "+01:00" THEN DateValue("str", before_t.d, "", "") ELSE before_t
\* datetime.strptime(date_str, "%Y-%m-%d").date(); when it raises,
\* datetime.fromisoformat(date_str.replace('Z', '+00:00')).date(); when that
\* raises too, the record is dropped ("fails")
ParseDate(v) ==
    LET date_str == DateStr(v)
    IN  IF date_str.d \in CalendarDates /\ date_str.t = "" /\ date_str.z = ""
        THEN date_str.d
        ELSE "fails"

\* nested objects of a raw record
Event(kind, startDate, endDate) == [kind |-> kind, startDate |-> startDate, endDate |-> endDate]
Location(kind, dlat, lat, dlon, lon) ==
    [kind |-> kind, decimalLatitude |-> dlat, latitude |-> lat,
     decimalLongitude |-> dlon, longitude |-> lon]
Occurrence(kind, id) == [kind |-> kind, occurrenceId |-> id]
Taxon(kind, vernacularName, commonName) ==
    [kind |-> kind, vernacularName |-> vernacularName, commonName |-> commonName]

\* occurrence_id or record.get("occurrenceId") or record.get("id") or
\* record.get("observationId"): "none" when no field yields an id
GivenRecordId(record) ==
    LET occurrence_id == IF record.occurrence.kind = "dict"
                         THEN Get(record.occurrence.occurrenceId)
                         ELSE "none"
    IN  Or(Or(Or(occurrence_id, Get(record.occurrenceId)), Get(record.id)),
           Get(record.observationId))
\* db_record["id"]: the id given, or f"artportalen_{hash(str(record))}", a
\* function of the text of the record and of the salt of the process
RecordId(record, seed) ==
    IF Truthy(GivenRecordId(record))
    THEN [given |-> GivenRecordId(record)]
    ELSE [artportalen |-> record, salt |-> seed]

\* the if / elif chain that picks the observation date
ObservationDateField(record) ==
    IF record.event.kind = "dict"
    THEN DateOr(DateGet(record.event.startDate), DateGet(record.event.endDate))
    ELSE IF record.eventDate.kind # "absent" THEN record.eventDate
    ELSE IF record.observationDate.kind # "absent" THEN record.observationDate
    ELSE IF record.startDate.kind # "absent" THEN record.startDate
    ELSE IF record.date.kind # "absent" THEN record.date
    ELSE NoneDate
\* db_record["observation_date"], or "fails" when the record is dropped
ObservationDate(record) ==
    IF DateTruthy(ObservationDateField(record))
    THEN ParseDate(ObservationDateField(record))
    ELSE "fails"

\* where the coordinates are read: the location object when it is a
\* dictionary, the record itself otherwise
CoordinateSource(record) ==
    IF record.location.kind = "dict"
    THEN record.location
    ELSE Location("flat", record.decimalLatitude, record.latitude,
                  record.decimalLongitude, record.longitude)
RawLatitude(record) ==
    Or(Get(CoordinateSource(record).decimalLatitude), Get(CoordinateSource(record).latitude))
RawLongitude(record) ==
    Or(Get(CoordinateSource(record).decimalLongitude), Get(CoordinateSource(record).longitude))
\* a coercion that takes a value float() rejects as 0.0
CoordinateOrZero(v) ==
    IF v = "none" THEN "none"
    ELSE IF Coercible(v) THEN Float(v)
    ELSE "0.0"
\* float(v) if v is not None else None; "fails" when float raises
Coordinate(v) ==
    IF v = "none" THEN "none"
    ELSE IF Coercible(v) THEN Float(v)
    ELSE "fails"

\* db_record["species_name"]: read from the taxon object when it is a
\* dictionary, else from the first of vernacularName and commonName the
\* record has as a key; None when nothing names the species
SpeciesName(record) ==
    IF record.taxon.kind = "dict"
    THEN Or(Get(record.taxon.vernacularName), Get(record.taxon.commonName))
    ELSE IF record.vernacularName # "absent" THEN record.vernacularName
    ELSE IF record.commonName # "absent" THEN record.commonName
    ELSE "none"

\* transform_artportalen_to_db_record on such a record
transform(record, seed) ==
    IF ObservationDate(record) = "fails" THEN Null
    ELSE IF "fails" \in {Coordinate(RawLatitude(record)), Coordinate(RawLongitude(record))}
    THEN Null
    ELSE IF "none" \in {Coordinate(RawLatitude(record)), Coordinate(RawLongitude(record))}
    THEN Null
    ELSE [id |-> RecordId(record, seed),
          observation_date |-> ObservationDate(record),
          species_name |-> SpeciesName(record),
          latitude |-> Coordinate(RawLatitude(record)),
          longitude |-> Coordinate(RawLongitude(record)),
          api_source |-> "artportalen"]

\* the record of the test fixture: every field in its nested object
SampleRecord ==
    [occurrence |-> Occurrence("dict", "absent"),
     occurrenceId |-> "test-123", id |-> "absent", observationId |-> "absent",
     event |-> Event("dict", DateValue("str", "2024-01-15", "T10:00:00", "+01:00"),
                     DateValue("str", "2024-01-15", "T10:00:00", "+01:00")),
     eventDate |-> AbsentDate, observationDate |-> AbsentDate,
     startDate |-> AbsentDate, date |-> AbsentDate,
     taxon |-> Taxon("dict", "Koltrast", "absent"),
     vernacularName |-> "absent", commonName |-> "absent",
     location |-> Location("dict", "57.7", "absent", "'11.9'", "absent"),
     decimalLatitude |-> "absent", latitude |-> "absent",
     decimalLongitude |-> "absent", longitude |-> "absent"]

LongitudeValues == {"absent", "'11.9'", "abc"}
NoLocation(kind) == Location(kind, "absent", "absent", "absent", "absent")
\* records that differ from the sample in their coordinates: these are in
\* the record itself (with no location object, or one that is no
\* dictionary), or in the location object (with or without coordinates in
\* the record itself)
CoordinateRecords ==
    { [SampleRecord EXCEPT !.location = NoLocation(kind),
                           !.decimalLatitude = dlat, !.latitude = lat,
                           !.decimalLongitude = dlon, !.longitude = lon] :
        kind \in {"absent", "text"}, dlat \in CoordinateValues, lat \in CoordinateValues,
        dlon \in LongitudeValues, lon \in LongitudeValues }
    \cup
    { [SampleRecord EXCEPT !.location = Location("dict", dlat, lat, dlon, lon),
                           !.decimalLatitude = flat, !.decimalLongitude = flat] :
        flat \in {"absent", "57.7"}, dlat \in CoordinateValues, lat \in CoordinateValues,
        dlon \in LongitudeValues, lon \in LongitudeValues }

\* the values of a date field that is to hold the given calendar date
DateChoices(d) == {AbsentDate, NoneDate, DateValue("str", d, "T10:00:00", "+01:00")}
\* records that differ from the sample in their dates: every supported
\* location absent, None or holding a date; and one location holding a date
\* in every form, or a string that is no date
DateRecords ==
    { [SampleRecord EXCEPT !.event = Event(kind, sd, ed), !.eventDate = a,
                           !.observationDate = b, !.startDate = c, !.date = d] :
        kind \in {"absent", "text", "dict"},
        sd \in DateChoices("2024-01-15"), ed \in DateChoices("2024-01-15"),
        a \in DateChoices("2024-02-20"), b \in DateChoices("2024-02-20"),
        c \in DateChoices("2024-01-15"), d \in DateChoices("2024-02-20") }
    \cup
    { [SampleRecord EXCEPT !.event = Event("dict", v, AbsentDate)] :
        v \in IsoForms("2024-01-15") \cup IsoForms("2024-02-20") \cup {BadDate, EmptyDate} }
    \cup
    { [SampleRecord EXCEPT !.event = Event("absent", AbsentDate, AbsentDate), !.date = v] :
        v \in IsoForms("2024-01-15") \cup IsoForms("2024-02-20") \cup {BadDate, EmptyDate} }

\* records that differ from the sample in their ids
IdRecords ==
    { [SampleRecord EXCEPT !.occurrence = Occurrence(kind, nested), !.occurrenceId = a,
                           !.id = b, !.observationId = c] :
        kind \in {"absent", "dict"}, nested \in IdValues,
        a \in IdValues, b \in IdValues, c \in IdValues }

\* species names: no key, None, an empty string and two names
SpeciesValues == {"absent", "none", "", "Koltrast", "Blackbird"}
\* records that differ from the sample in what names their species: a taxon
\* object (a dictionary or not, or none) and the two keys of the record
\* itself
SpeciesRecords ==
    { [SampleRecord EXCEPT !.taxon = Taxon(kind, tv, tc),
                           !.vernacularName = v, !.commonName = c] :
        kind \in {"absent", "text", "dict"}, tv \in SpeciesValues, tc \in SpeciesValues,
        v \in SpeciesValues, c \in SpeciesValues }

NotCalled == [called |-> FALSE]
\* no call of transform_artportalen_to_db_record is being looked at
TransformIdle ==
    /\ raw_record = SampleRecord
    /\ transformed = NotCalled
    /\ transformed_again = NotCalled

\* transform_artportalen_to_db_record(record)
transform_record ==
    /\ transformed = NotCalled
    /\ transformed' = transform(raw_record, hashseed)
    /\ UNCHANGED <<storeVars, hashseed, statVars, pc, argVars, loopVars, planVars,
                   chunkVars, pageVars, batchVars, ingestVars, fetchVars, runVars,
                   raw_record, transformed_again, schemaVars, routerVars, mergeVars,
                   managerVars, coverageVars, dedupVars>>

\* the same record is transformed again, in the same process or in another
transform_record_again ==
    /\ transformed # NotCalled
    /\ transformed_again = NotCalled
    /\ \E seed \in Seeds :
          /\ hashseed' = seed
          /\ transformed_again' = transform(raw_record, seed)
    /\ UNCHANGED <<storeVars, statVars, pc, argVars, loopVars, planVars,
                   chunkVars, pageVars, batchVars, ingestVars, fetchVars, runVars,
                   raw_record, transformed, schemaVars, routerVars, mergeVars,
                   managerVars, coverageVars, dedupVars>>

(***************************************************************************)
(* schema.py: create_schema, get_schema_version, validate_schema.          *)
(***************************************************************************)
SCHEMA_VERSION == 1
\* the versions a schema_version table may hold: an older one, the current
\* one and a later one
StoredVersions == 0 .. 2
MaxSchemaCalls == 3
\* the statements of create_schema: the version table, the observations
\* table with its indexes, the version row
CreateStatements == 3

\* a table that does not exist, a table with the given rows, its rows
NoTable == <<>>
Table(rows) == <<rows>>
Rows(table) == table[1]
\* Optional[int]: None is <<>>, a version v is <<v>>
NoVersion == <<>>
MaxOf(S) == CHOOSE x \in S : \A y \in S : y <= x
MinOf(S) == CHOOSE x \in S : \A y \in S : x <= y
\* SELECT MIN(version) in place of SELECT MAX(version)
OldestVersion(conn, versions) ==
    IF conn # "open" \/ versions = NoTable THEN NoVersion
    ELSE IF Rows(versions) = {} THEN NoVersion
    ELSE <<MinOf(Rows(versions))>>
\* get_schema_version: SELECT MAX(version) FROM schema_version; None when
\* the query raises (no such table, no connection) or the table is empty
StoredVersion(conn, versions) ==
    IF conn # "open" \/ versions = NoTable THEN NoVersion
    ELSE IF Rows(versions) = {} THEN NoVersion
    ELSE <<MaxOf(Rows(versions))>>
\* validate_schema: the observations table can be queried, and the stored
\* version is SCHEMA_VERSION
SchemaIsValid(conn, table, versions) ==
    IF conn # "open" \/ ~table THEN FALSE
    ELSE IF StoredVersion(conn, versions) = NoVersion THEN FALSE
    ELSE IF StoredVersion(conn, versions) # <<SCHEMA_VERSION>> THEN FALSE
    ELSE TRUE

SchemaCall(op, returned) == [op |-> op, returned |-> returned]
\* a database file nothing was created in, and no schema function called
SchemaIdle ==
    /\ connection = "open"
    /\ observations_table = FALSE
    /\ schema_version = NoTable
    /\ schema_log = <<>>

\* create_schema(connection): the statements run in order, each committed
\* as it runs; the first that raises ends the function, which then returns
\* False.  The schema_version table after `done` statements have run:
\* CREATE TABLE IF NOT EXISTS keeps an existing table and its rows, the
\* INSERT ... ON CONFLICT adds the row of SCHEMA_VERSION
CreatedVersions(versions, done) ==
    IF done = 0 THEN versions
    ELSE IF done < CreateStatements
    THEN (IF versions = NoTable THEN Table({}) ELSE versions)
    ELSE (IF versions = NoTable THEN Table({SCHEMA_VERSION})
          ELSE Table(Rows(versions) \cup {SCHEMA_VERSION}))
\* whether the observations table exists after `done` statements have run
CreatedTable(table, done) == table \/ done >= 2
create_schema ==
    /\ Len(schema_log) < MaxSchemaCalls
    /\ \E done \in 0 .. CreateStatements :
          /\ connection = "closed" => done = 0
          /\ schema_version' = CreatedVersions(schema_version, done)
          /\ observations_table' = CreatedTable(observations_table, done)
          /\ schema_log' = Append(schema_log,
                                  SchemaCall("create_schema", done = CreateStatements))
    /\ UNCHANGED <<storeVars, hashseed, statVars, pc, argVars, loopVars, planVars,
                   chunkVars, pageVars, batchVars, ingestVars, fetchVars, runVars,
                   transformVars, connection, routerVars, mergeVars, managerVars,
                   coverageVars, dedupVars>>

\* get_schema_version(connection)
get_schema_version ==
    /\ Len(schema_log) < MaxSchemaCalls
    /\ schema_log' = Append(schema_log,
                            SchemaCall("get_schema_version",
                                       StoredVersion(connection, schema_version)))
    /\ UNCHANGED <<storeVars, hashseed, statVars, pc, argVars, loopVars, planVars,
                   chunkVars, pageVars, batchVars, ingestVars, fetchVars, runVars,
                   transformVars, connection, observations_table, schema_version, routerVars,
                   mergeVars, managerVars, coverageVars, dedupVars>>

\* validate_schema(connection)
validate_schema ==
    /\ Len(schema_log) < MaxSchemaCalls
    /\ schema_log' = Append(schema_log,
                            SchemaCall("validate_schema",
                                       SchemaIsValid(connection, observations_table,
                                                     schema_version)))
    /\ UNCHANGED <<storeVars, hashseed, statVars, pc, argVars, loopVars, planVars,
                   chunkVars, pageVars, batchVars, ingestVars, fetchVars, runVars,
                   transformVars, connection, observations_table, schema_version, routerVars,
                   mergeVars, managerVars, coverageVars, dedupVars>>

(***************************************************************************)
(* The entry points of ingestion: the loading scripts and the ingestion    *)
(* job of the management page.  Each validates the schema, creates it when *)
(* the validation fails, and then constructs the pipeline and ingests.     *)
(* The log entry tells whether the entry point went on to ingest.          *)
(***************************************************************************)
\* scripts/load_historical_data.py, main: `if not validate_schema(c): if not
\* create_schema(c): sys.exit(1)`; whether the script goes on to ingest
\* after create_schema returned `created`
Proceeds(created) == created
\* what an entry point does to the store before it ingests, and whether it
\* ingests: exits tells whether a failed create_schema ends it
EnsureSchema(name, exits) ==
    /\ IF SchemaIsValid(connection, observations_table, schema_version)
       THEN /\ schema_log' = Append(schema_log, SchemaCall(name, TRUE))
            /\ UNCHANGED <<observations_table, schema_version>>
       ELSE \E done \in 0 .. CreateStatements :
               /\ connection = "closed" => done = 0
               /\ schema_version' = CreatedVersions(schema_version, done)
               /\ observations_table' = CreatedTable(observations_table, done)
               /\ schema_log' =
                     Append(schema_log,
                            SchemaCall(name, IF exits THEN Proceeds(done = CreateStatements)
                                             ELSE TRUE))
    /\ UNCHANGED <<storeVars, hashseed, statVars, pc, argVars, loopVars, planVars,
                   chunkVars, pageVars, batchVars, ingestVars, fetchVars, runVars,
                   transformVars, connection, routerVars, mergeVars, managerVars,
                   coverageVars, dedupVars>>
\* scripts/load_historical_data.py and scripts/update_database.py
load_historical_data ==
    /\ Len(schema_log) < MaxSchemaCalls
    /\ EnsureSchema("load_historical_data", TRUE)
\* database_management.py, run_ingestion_job: `if not validate_schema(c):
\* create_schema(c)`, the value create_schema returns is not read
run_ingestion_job ==
    /\ Len(schema_log) < MaxSchemaCalls
    /\ EnsureSchema("run_ingestion_job", FALSE)

(***************************************************************************)
(* unified_client.py: UnifiedAPIClient.                                    *)
(*                                                                         *)
(* A date is a day number; an Optional[date] is <<>> for None and <<d>>    *)
(* for a date.                                                             *)
(***************************************************************************)
\* date.today()
Today == 100
\* UnifiedAPIClient(date_threshold_days = 7)
date_threshold_days == 7
\* Config.DATABASE_DATE_THRESHOLD_DAYS
DATABASE_DATE_THRESHOLD_DAYS == 30
NoDay == <<>>
DaysAgo(k) == <<Today - k>>
\* the dates asked for: today, inside and on the edge of the recent
\* threshold, inside and on the edge of the database threshold, and beyond
QueryDaysAgo == {0, 2, 7, 8, 30, 31, 50, 60}
QueryDates == {NoDay} \cup {DaysAgo(k) : k \in QueryDaysAgo}
ForceApi == {"None", "auto", "artportalen", "gbif"}
\* what a client may answer: a result, a result with an "error" key, an
\* exception
ClientResponses == {"ok", "error", "raises"}
\* what the database client may answer: these, and a result that holds no
\* record because the table has none for the range
DatabaseResponses == ClientResponses \cup {"empty"}
\* (today - d).days
days_ago(d) == Today - d[1]

\* how duckdb.connect ends in __init__: the connection is open; it raised
\* because another process holds the file ("locked"); it raised for another
\* reason, as a file that cannot be read or is no database ("closed")
ConnectOutcomes == {"open", "locked", "closed"}
\* __init__: the database client exists when the database is asked for, the
\* module could be imported, the connection opens and validate_schema passes
DatabaseReadyUnvalidated(use, imported, conn, table, versions) ==
    use /\ imported /\ conn = "open"
DatabaseReady(use, imported, conn, table, versions) ==
    use /\ imported /\ conn = "open" /\ SchemaIsValid(conn, table, versions)
\* self.use_database after __init__: cleared when the connection raised
UseDatabase(use, imported, conn) == use /\ imported /\ conn = "open"

\* a choice that takes "auto" for a manual selection too
should_use_database_unless_auto(start, end, force_api) ==
    IF ~use_database \/ ~database_available THEN <<FALSE, "database_unavailable">>
    ELSE IF force_api # "None" THEN <<FALSE, "manual_api_selection">>
    ELSE IF start = NoDay /\ end = NoDay THEN <<FALSE, "no_date_range">>
    ELSE LET check_date == IF end # NoDay THEN end ELSE start
         IN  IF days_ago(check_date) > DATABASE_DATE_THRESHOLD_DAYS
             THEN <<TRUE, "historical_date_range">>
             ELSE <<FALSE, "recent_date_range">>
\* a choice that looks at the dates before the manual selection
should_use_database_by_date_first(start, end, force_api) ==
    IF ~use_database \/ ~database_available THEN <<FALSE, "database_unavailable">>
    ELSE IF start = NoDay /\ end = NoDay THEN <<FALSE, "no_date_range">>
    ELSE LET check_date == IF end # NoDay THEN end ELSE start
         IN  IF days_ago(check_date) > DATABASE_DATE_THRESHOLD_DAYS
             THEN <<TRUE, "historical_date_range">>
             ELSE IF force_api \notin {"None", "auto"}
             THEN <<FALSE, "manual_api_selection">>
             ELSE <<FALSE, "recent_date_range">>
\* _should_use_database: <<use_database, reason>>
should_use_database(start, end, force_api) ==
    IF ~use_database \/ ~database_available THEN <<FALSE, "database_unavailable">>
    ELSE IF force_api \notin {"None", "auto"} THEN <<FALSE, "manual_api_selection">>
    ELSE IF start = NoDay /\ end = NoDay THEN <<FALSE, "no_date_range">>
    ELSE LET check_date == IF end # NoDay THEN end ELSE start
         IN  IF days_ago(check_date) > DATABASE_DATE_THRESHOLD_DAYS
             THEN <<TRUE, "historical_date_range">>
             ELSE <<FALSE, "recent_date_range">>

\* self.artportalen_client and self.artportalen_client._is_authenticated()
ArtportalenAvailable == artportalen_client = "authenticated"
\* a choice of API that looks at the start of the range when there is one
should_use_artportalen_by_start(start, end, force_api) ==
    IF force_api = "gbif" THEN <<FALSE, "manual_selection">>
    ELSE IF force_api = "artportalen"
    THEN (IF ~ArtportalenAvailable THEN <<FALSE, "artportalen_unavailable">>
          ELSE <<TRUE, "manual_selection">>)
    ELSE IF ~ArtportalenAvailable THEN <<FALSE, "artportalen_unavailable">>
    ELSE IF start = NoDay /\ end = NoDay THEN <<FALSE, "no_date_range">>
    ELSE LET check_date == IF start # NoDay THEN start ELSE end
         IN  IF days_ago(check_date) < date_threshold_days
             THEN <<TRUE, "recent_date_range">>
             ELSE <<FALSE, "historical_date_range">>
\* _should_use_artportalen: <<use_artportalen, reason>>
should_use_artportalen(start, end, force_api) ==
    IF force_api = "gbif" THEN <<FALSE, "manual_selection">>
    ELSE IF force_api = "artportalen"
    THEN (IF ~ArtportalenAvailable THEN <<FALSE, "artportalen_unavailable">>
          ELSE <<TRUE, "manual_selection">>)
    ELSE IF ~ArtportalenAvailable THEN <<FALSE, "artportalen_unavailable">>
    ELSE IF start = NoDay /\ end = NoDay THEN <<FALSE, "no_date_range">>
    ELSE LET check_date == IF end # NoDay THEN end ELSE start
         IN  IF days_ago(check_date) <= date_threshold_days
             THEN <<TRUE, "recent_date_range">>
             ELSE <<FALSE, "historical_date_range">>

\* has_mixed_range: one end of the range is older than the database
\* threshold and the other is not
HasMixedRange(start, end) ==
    /\ start # NoDay
    /\ end # NoDay
    /\ \/ /\ days_ago(start) > DATABASE_DATE_THRESHOLD_DAYS
          /\ days_ago(end) <= DATABASE_DATE_THRESHOLD_DAYS
       \/ /\ days_ago(start) <= DATABASE_DATE_THRESHOLD_DAYS
          /\ days_ago(end) > DATABASE_DATE_THRESHOLD_DAYS
\* today - timedelta(days=database_threshold)
ThresholdDate == Today - DATABASE_DATE_THRESHOLD_DAYS

\* what search_occurrences returns: the source that answered, the reason
\* (without the text of the error it may end with), whether the result
\* carries an "error" key, whether it holds no record, whether it carries
\* an "_artportalen_error" key
Answer(source, reason, error, empty) ==
    [source |-> source, reason |-> reason, error |-> error, empty |-> empty,
     artportalen_error |->
        source = "gbif" /\ reason \in {"artportalen_failed", "artportalen_exception"}]
NoAnswer == [source |-> "none", reason |-> "", error |-> FALSE, empty |-> FALSE,
             artportalen_error |-> FALSE]
\* a call of a client: the range asked of it and what it answered
Call(client, start, end, response) ==
    [client |-> client, start_date |-> start, end_date |-> end, response |-> response]
\* the outcome of a call of search_occurrences: the clients called in order
\* and the value returned
Outcome(called, returned) == [calls |-> called, answer |-> returned]

\* a last stage that gives the reason of the selection whatever came before
UseGbifForgetful(called, start, end, ap, reason, gbif) ==
    Outcome(Append(called, Call("gbif", start, end, gbif)),
            Answer("gbif", ap[2], gbif = "error", FALSE))
\* the last stage: the GBIF client answers
UseGbif(called, start, end, ap, reason, gbif) ==
    Outcome(Append(called, Call("gbif", start, end, gbif)),
            Answer("gbif", reason, gbif = "error", FALSE))
\* the stage "Try Artportalen if selected", and GBIF after it
UseApi(called, start, end, ap, artportalen, gbif) ==
    IF ap[1]
    THEN IF artportalen = "ok"
         THEN Outcome(Append(called, Call("artportalen", start, end, artportalen)),
                      Answer("artportalen", ap[2], FALSE, FALSE))
         ELSE UseGbif(Append(called, Call("artportalen", start, end, artportalen)),
                      start, end, ap,
                      IF artportalen = "error" THEN "artportalen_failed"
                      ELSE "artportalen_exception",
                      gbif)
    ELSE UseGbif(called, start, end, ap, ap[2], gbif)
\* the stage "Handle mixed date ranges", and the API stages after it: the
\* database is asked for start .. threshold_date, the API for the day after
\* threshold_date .. end
UseMixed(called, start, end, db, ap, database, artportalen, artportalen_again, gbif) ==
    IF /\ HasMixedRange(start, end)
       /\ db[1]
       /\ start[1] < ThresholdDate
       /\ end[1] > ThresholdDate
    THEN LET db_call == Call("database", start, <<ThresholdDate>>, database)
             ap_call == Call("artportalen", <<ThresholdDate + 1>>, end, artportalen)
             gb_call == Call("gbif", <<ThresholdDate + 1>>, end, gbif)
         IN  IF database_client = "none" \/ database = "raises"
             THEN UseApi(called, start, end, ap, artportalen_again, gbif)
             ELSE IF ap[1] /\ artportalen = "raises"
             THEN UseApi(called \o <<db_call, ap_call>>, start, end, ap,
                         artportalen_again, gbif)
             ELSE Outcome(called \o <<db_call>>
                                 \o (IF ap[1] THEN <<ap_call>> ELSE <<>>)
                                 \o (IF ~ap[1] \/ artportalen = "error"
                                     THEN <<gb_call>> ELSE <<>>),
                          Answer("mixed", "mixed_range", FALSE, FALSE))
    ELSE UseApi(called, start, end, ap, artportalen_again, gbif)
\* search_occurrences(start_date, end_date, force_api), given what each
\* client answers when it is called
SearchOutcome(start, end, force_api, database, artportalen, artportalen_again, gbif) ==
    LET db == should_use_database(start, end, force_api)
        ap == should_use_artportalen(start, end, force_api)
    IN  IF db[1] /\ ~HasMixedRange(start, end)
        THEN IF database_client = "none"
             THEN UseMixed(<<>>, start, end, db, ap, database, artportalen,
                           artportalen_again, gbif)
             ELSE IF database \in {"ok", "empty"}
             THEN Outcome(<<Call("database", start, end, database)>>,
                          Answer("database", db[2], FALSE, database = "empty"))
             ELSE UseMixed(<<Call("database", start, end, database)>>, start, end, db, ap,
                           database, artportalen, artportalen_again, gbif)
        ELSE UseMixed(<<>>, start, end, db, ap, database, artportalen,
                      artportalen_again, gbif)

NoQuery == [start_date |-> NoDay, end_date |-> NoDay, force_api |-> "None", asked |-> FALSE]
\* no UnifiedAPIClient is looked at
RouterIdle ==
    /\ use_database = FALSE
    /\ database_available = FALSE
    /\ database_client = "none"
    /\ artportalen_client = "none"
    /\ query = NoQuery
    /\ calls = <<>>
    /\ answer = NoAnswer

\* the object __init__ leaves, for the arguments given and the database file
\* found
UnifiedAPIClient(use, imported, artportalen) ==
    /\ use_database = UseDatabase(use, imported, connection)
    /\ database_available =
          DatabaseReady(use, imported, connection, observations_table, schema_version)
    /\ database_client =
          (IF DatabaseReady(use, imported, connection, observations_table, schema_version)
           THEN "DatabaseQueryClient" ELSE "none")
    /\ artportalen_client = artportalen
    /\ query = NoQuery
    /\ calls = <<>>
    /\ answer = NoAnswer

\* search_occurrences(start_date=..., end_date=..., force_api=...); the
\* client keeps nothing from one search to the next, so one search is
\* looked at
search_occurrences ==
    /\ ~query.asked
    /\ \E start \in QueryDates, end \in QueryDates, force_api \in ForceApi,
          database \in DatabaseResponses, artportalen \in ClientResponses,
          gbif \in {"ok", "error"} :
          \* Artportalen is called a second time only after the mixed stage
          \E artportalen_again \in (IF HasMixedRange(start, end) THEN ClientResponses
                                    ELSE {artportalen}) :
             LET outcome == SearchOutcome(start, end, force_api, database, artportalen,
                                          artportalen_again, gbif)
             IN  /\ query' = [start_date |-> start, end_date |-> end,
                              force_api |-> force_api, asked |-> TRUE]
                 /\ calls' = outcome.calls
                 /\ answer' = outcome.answer
    /\ UNCHANGED <<storeVars, hashseed, statVars, pc, argVars, loopVars, planVars,
                   chunkVars, pageVars, batchVars, ingestVars, fetchVars, runVars,
                   transformVars, schemaVars, use_database, database_available,
                   database_client, artportalen_client, mergeVars, managerVars,
                   coverageVars, dedupVars>>

(***************************************************************************)
(* unified_client.py: the merge of a mixed range (lines 314-345).          *)
(*                                                                         *)
(* A record of a result has an event date (a day number), a species name   *)
(* and coordinates in units of 0.00001 degree, <<>> when it has none.      *)
(***************************************************************************)
MaxResults == 2
MaxLimit == 2
\* round(x, 4) of a coordinate held in units of 0.00001 degree
Round4(x) == (x + 5) \div 10
ResultRecord(date, species, lat, lon) ==
    [eventDate |-> date, species |-> species, latitude |-> lat, longitude |-> lon]
\* the records the two sources may return: one sighting, the same sighting
\* with coordinates that differ by less than 0.0001 degree, the same without
\* coordinates, and sightings of another day
ResultRecords ==
    { ResultRecord(d, "Koltrast", lat, <<1190000>>) :
        d \in {1, 2}, lat \in {<<5770000>>, <<5770004>>} }
    \cup { ResultRecord(d, "Koltrast", <<>>, <<>>) : d \in {1, 2} }
ResultLists == UNION { [1 .. n -> ResultRecords] : n \in 0 .. MaxResults }

\* list[offset:] and list[:limit]
DropFirst(list, n) == SubSeq(list, n + 1, Len(list))
TakeFirst(list, n) == SubSeq(list, 1, IF n < Len(list) THEN n ELSE Len(list))
\* list.sort(key=eventDate, reverse=True): the sort is stable, records of
\* the same date keep their order
RECURSIVE InsertByDate(_, _)
InsertByDate(sorted, r) ==
    IF sorted = <<>> THEN <<r>>
    ELSE IF Head(sorted).eventDate >= r.eventDate
    THEN <<Head(sorted)>> \o InsertByDate(Tail(sorted), r)
    ELSE <<r>> \o sorted
RECURSIVE SortByDateDescending(_)
SortByDateDescending(list) ==
    IF list = <<>> THEN <<>>
    ELSE InsertByDate(SortByDateDescending(SubSeq(list, 1, Len(list) - 1)),
                      list[Len(list)])
\* merged_results: the database results, then the API results, sorted;
\* then "if offset:" the slice from offset, "if limit:" the slice to limit
MergeResults(db, api, off, lim) ==
    LET sorted == SortByDateDescending(db \o api)
        after_offset == IF off # 0 THEN DropFirst(sorted, off) ELSE sorted
    IN  IF lim # 0 THEN TakeFirst(after_offset, lim) ELSE after_offset

\* merged holds nothing before the merge and <<list>> after it
NotMerged == <<>>
\* no merge is looked at
MergeIdle ==
    /\ db_results = <<>>
    /\ api_results = <<>>
    /\ merge_offset = 0
    /\ merge_limit = 0
    /\ merged = NotMerged

\* the merge of search_occurrences, given the results of the two sources
merge_results ==
    /\ merged = NotMerged
    /\ merged' = <<MergeResults(db_results, api_results, merge_offset, merge_limit)>>
    /\ UNCHANGED <<storeVars, hashseed, statVars, pc, argVars, loopVars, planVars,
                   chunkVars, pageVars, batchVars, ingestVars, fetchVars, runVars,
                   transformVars, schemaVars, routerVars, managerVars,
                   coverageVars, dedupVars,
                   db_results, api_results, merge_offset, merge_limit>>

(***************************************************************************)
(* connection.py: DuckDBConnection, the singleton connection manager.      *)
(***************************************************************************)
DatabasePaths == {"data/birds.duckdb", "test.duckdb"}
MaxManagerCalls == 4
NoInstance == <<>>
\* the instance: _db_path, and _connection ("none" for None)
Instance(path, conn) == <<[db_path |-> path, connection |-> conn]>>
\* a call of the manager and how it ended
ManagerCall(op, path, raised, returned) ==
    [op |-> op, path |-> path, raised |-> raised, returned |-> returned]

\* health_check(): False when _connection is None, else whether SELECT 1
\* can be executed
HealthCheck(inst) == inst[1].connection = "open"
\* no connection manager is looked at
ManagerIdle ==
    /\ instance = NoInstance
    /\ manager_log = <<>>

\* DuckDBConnection(db_path): __new__ and, for the first instance,
\* _initialize.  cls._instance is assigned before _initialize runs and
\* _db_path before duckdb.connect, which may raise.
DuckDBConnection ==
    /\ Len(manager_log) < MaxManagerCalls
    /\ \E path \in DatabasePaths, connects \in BOOLEAN :
          IF instance = NoInstance
          THEN /\ instance' = Instance(path, IF connects THEN "open" ELSE "none")
               /\ manager_log' =
                     Append(manager_log,
                            ManagerCall("DuckDBConnection", path, ~connects,
                                        IF connects THEN Instance(path, "open")
                                        ELSE NoInstance))
          ELSE /\ instance' = instance
               /\ manager_log' =
                     Append(manager_log,
                            ManagerCall("DuckDBConnection", path, FALSE, instance))
    /\ UNCHANGED <<storeVars, hashseed, statVars, pc, argVars, loopVars, planVars,
                   chunkVars, pageVars, batchVars, ingestVars, fetchVars, runVars,
                   transformVars, schemaVars, routerVars, mergeVars,
                   coverageVars, dedupVars>>

\* close()
close ==
    /\ Len(manager_log) < MaxManagerCalls
    /\ instance # NoInstance
    /\ instance' = Instance(instance[1].db_path, "none")
    /\ manager_log' = Append(manager_log,
                             ManagerCall("close", instance[1].db_path, FALSE, instance'))
    /\ UNCHANGED <<storeVars, hashseed, statVars, pc, argVars, loopVars, planVars,
                   chunkVars, pageVars, batchVars, ingestVars, fetchVars, runVars,
                   transformVars, schemaVars, routerVars, mergeVars,
                   coverageVars, dedupVars>>

(***************************************************************************)
(* ingestion.py: check_existing_data looked at on its own.                 *)
(***************************************************************************)
NotChecked == <<>>
\* no call of check_existing_data is looked at
CoverageIdle == coverage = NotChecked
\* the datetimes the function is called with: midnight and the last
\* microsecond of the first days of the window
CoverageDates ==
    {Midnight(d) : d \in WindowStart .. WindowStart + 4}
    \cup {EndOfDay(d) : d \in WindowStart .. WindowStart + 4}
\* the tables it is called on: none, one or two of the observations of two
\* days
CoverageStores ==
    SUBSET {StoredRow(DbRecord(1, WindowStart + 1, "a"), 0, 0),
            StoredRow(DbRecord(2, WindowStart + 3, "b"), 0, 0)}

\* check_existing_data(start_date, end_date), the query raising or not
check_existing_data_called ==
    /\ coverage = NotChecked
    /\ \E s \in CoverageDates, e \in CoverageDates, raises \in BOOLEAN :
          coverage' = <<[start |-> s, end |-> e, raises |-> raises,
                         returned |-> CheckExistingData(observations, s, e, raises)]>>
    /\ UNCHANGED <<storeVars, hashseed, statVars, pc, argVars, loopVars, planVars,
                   chunkVars, pageVars, batchVars, ingestVars, fetchVars, runVars,
                   transformVars, schemaVars, routerVars, mergeVars, managerVars,
                   dedupVars>>

(***************************************************************************)
(* app.py: _deduplicate_results.                                           *)
(*                                                                         *)
(* A record has the coordinate fields latitude, decimalLatitude, longitude *)
(* and decimalLongitude (in units of 0.00001 degree, <<>> for a missing    *)
(* field or None), an event date and a species.                            *)
(***************************************************************************)
\* the number of records in the lists given to _deduplicate_results
MaxDedupRecords == 3
ApiRecord(lat, dlat, lon, dlon, date, species) ==
    [latitude |-> lat, decimalLatitude |-> dlat, longitude |-> lon,
     decimalLongitude |-> dlon, eventDate |-> date, species |-> species]
\* records of one species on two days: at a place, at the same place with
\* a jitter of 0.00004 degree, at the same place with the latitude in
\* decimalLatitude, on the equator, and without coordinates
ApiRecords ==
    { ApiRecord(lat, <<>>, <<1190000>>, <<>>, d, "Koltrast") :
        lat \in {<<5770000>>, <<5770004>>, <<0>>}, d \in {1, 2} }
    \cup { ApiRecord(<<>>, <<5770000>>, <<1190000>>, <<>>, d, "Koltrast") : d \in {1, 2} }
    \cup { ApiRecord(<<>>, <<>>, <<>>, <<>>, d, "Koltrast") : d \in {1, 2} }
ApiRecordLists == UNION { [1 .. n -> ApiRecords] : n \in 0 .. MaxDedupRecords }
\* the lists of results of the calls: a list of records cut in two
ResultsLists ==
    UNION { { <<SubSeq(l, 1, k), SubSeq(l, k + 1, Len(l))>> : k \in 0 .. Len(l) } :
              l \in ApiRecordLists }

\* a or b, for a number or None: 0.0 and None are false
OrNumber(a, b) == IF a # <<>> /\ a # <<0>> THEN a ELSE b
\* key: (round(float(lat), 4), round(float(lon), 4), str(event_date),
\* str(species)) when lat and lon are not None, else (str(event_date),
\* str(species))
KeyOf(record) ==
    LET lat == OrNumber(record.latitude, record.decimalLatitude)
        lon == OrNumber(record.longitude, record.decimalLongitude)
    IN  IF lat # <<>> /\ lon # <<>>
        THEN <<Round4(lat[1]), Round4(lon[1]), record.eventDate, record.species>>
        ELSE <<record.eventDate, record.species>>
\* the loop over the records of one list, with the keys seen so far
RECURSIVE DeduplicateList(_, _, _)
DeduplicateList(results, seen, deduplicated_so_far) ==
    IF results = <<>> THEN [seen |-> seen, deduplicated |-> deduplicated_so_far]
    ELSE IF KeyOf(Head(results)) \in seen
    THEN DeduplicateList(Tail(results), seen, deduplicated_so_far)
    ELSE DeduplicateList(Tail(results), seen \cup {KeyOf(Head(results))},
                         Append(deduplicated_so_far, Head(results)))
\* the loop over the lists
RECURSIVE DeduplicateLists(_, _, _)
DeduplicateLists(lists, seen, deduplicated_so_far) ==
    IF lists = <<>> THEN deduplicated_so_far
    ELSE LET one == DeduplicateList(Head(lists), seen, deduplicated_so_far)
         IN  DeduplicateLists(Tail(lists), one.seen, one.deduplicated)
\* _deduplicate_results(results_list)
DeduplicateResults(lists) == DeduplicateLists(lists, {}, <<>>)

NotDeduplicated == <<>>
\* no call of _deduplicate_results is looked at
DedupIdle ==
    /\ results_list = <<>>
    /\ deduplicated = NotDeduplicated

\* _deduplicate_results(results_list)
deduplicate_results ==
    /\ deduplicated = NotDeduplicated
    /\ deduplicated' = <<DeduplicateResults(results_list)>>
    /\ UNCHANGED <<storeVars, hashseed, statVars, pc, argVars, loopVars, planVars,
                   chunkVars, pageVars, batchVars, ingestVars, fetchVars, runVars,
                   transformVars, schemaVars, routerVars, mergeVars, managerVars,
                   coverageVars, results_list>>

\* nothing but the pipeline is looked at
OthersIdle ==
    /\ TransformIdle
    /\ SchemaIdle
    /\ RouterIdle
    /\ MergeIdle
    /\ ManagerIdle
    /\ CoverageIdle
    /\ DedupIdle

(***************************************************************************)
(* Specifications.                                                         *)
(***************************************************************************)
NoResult == [success |-> FALSE, total_chunks |-> 0, processed_chunks |-> 0,
             skipped_chunks |-> 0, total_ingested |-> 0, total_failed |-> 0]

\* the state after IngestionPipeline(connection), before any call
Constructed ==
    /\ now = 0
    /\ store_faults = 0
    /\ hashseed = 1
    /\ total_ingested = 0
    /\ total_failed = 0
    /\ pc = "idle"
    /\ current = start_date
    /\ chunks = <<>>
    /\ monthly_chunks = <<>>
    /\ todo = <<>>
    /\ all_chunks = <<>>
    /\ all_over = <<>>
    /\ idx = 1
    /\ processed_chunks = 0
    /\ skipped_chunks = 0
    /\ status = <<>>
    /\ progress = <<>>
    /\ all_records = <<>>
    /\ offset = 0
    /\ page_offsets = <<>>
    /\ long_page = FALSE
    /\ db_records = <<>>
    /\ bi = 0
    /\ batch = <<>>
    /\ retry_count = 0
    /\ ret = "direct"
    /\ sleeps = <<>>
    /\ attempts = 0
    /\ fetch_log = <<>>
    /\ call_no = 0
    /\ last_response = "none"
    /\ run = 0
    /\ result = NoResult
    /\ snapshot = {}

\* a date range as the callers build it: the start at midnight, the end at
\* midnight (datetime.combine(d, datetime.min.time())) or at the last
\* microsecond of its day (datetime(y, m, 1) - datetime.resolution)
DateRange(s, e) ==
    /\ start_date = Midnight(s)
    /\ end_date \in {Midnight(e), EndOfDay(e)}
\* the other arguments of process_date_range: as by default, or as a caller
\* may choose them
DefaultArguments ==
    /\ skip_existing = TRUE
    /\ auto_split_large_chunks = TRUE
    /\ max_records = "none"
AnyArguments ==
    /\ skip_existing \in BOOLEAN
    /\ auto_split_large_chunks \in BOOLEAN
    /\ max_records \in {"none", "cap"}

\* the planner on its own, for every date range of the window, over an
\* empty table or a table that holds one observation
StoresPlan ==
    {{}} \cup { {StoredRow(DbRecord(1, d, "a"), 0, 0)} :
                  d \in {WindowStart + 1, WindowStart + NumDays - 1} }
InitPlan ==
    /\ observations \in StoresPlan
    /\ \E s \in Days, e \in Days : s <= e /\ DateRange(s, e)
    /\ AnyArguments
    /\ same_fetch = FALSE
    /\ Constructed
    /\ OthersIdle
SpecPlan == InitPlan /\ [][Planning]_vars

\* ingest_batch on its own
InitIngest ==
    /\ observations = {}
    /\ DateRange(WindowStart, WindowStart)
    /\ DefaultArguments
    /\ same_fetch = FALSE
    /\ Constructed
    /\ OthersIdle
NextIngest == ingest_batch \/ IngestAttempts
SpecIngest == InitIngest /\ [][NextIngest]_vars

\* one whole run of process_date_range, over an empty table or a table that
\* holds an observation of the first day: a range of eight days and one of
\* two days within a month, and one of two days across the turn of the year
RunRanges ==
    {<<WindowStart, WindowStart + 7>>, <<WindowStart, WindowStart + 1>>,
     <<WindowStart + 8, WindowStart + 9>>}
StoresRun == {{}, {StoredRow(DbRecord(1, WindowStart, "a"), 0, 0)}}
Init ==
    /\ observations \in StoresRun
    /\ \E range \in RunRanges : DateRange(range[1], range[2])
    /\ AnyArguments
    /\ same_fetch = FALSE
    /\ Constructed
    /\ OthersIdle
Next == Planning \/ Processing \/ IngestAttempts
Spec == Init /\ [][Next]_vars

\* the same call of process_date_range made twice, the second time against
\* the fetch results of the first, by the same pipeline or by a new one;
\* the storage does not fail
InitRerun ==
    /\ observations = {}
    /\ start_date = Midnight(WindowStart)
    /\ end_date = EndOfDay(WindowStart + 7)
    /\ skip_existing \in BOOLEAN
    /\ auto_split_large_chunks \in BOOLEAN
    /\ max_records = "none"
    /\ same_fetch = TRUE
    /\ Constructed
    /\ OthersIdle
NextRerun == Planning \/ Processing \/ ingest_batch_succeeds \/ Callers
SpecRerun == InitRerun /\ [][NextRerun]_vars

\* transform_artportalen_to_db_record on its own, for every record of the
\* four families, called once and then once more
RawRecords == CoordinateRecords \cup DateRecords \cup IdRecords \cup SpeciesRecords
InitTransform ==
    /\ observations = {}
    /\ DateRange(WindowStart, WindowStart)
    /\ DefaultArguments
    /\ same_fetch = FALSE
    /\ Constructed
    /\ raw_record \in RawRecords
    /\ transformed = NotCalled
    /\ transformed_again = NotCalled
    /\ SchemaIdle
    /\ RouterIdle
    /\ MergeIdle
    /\ ManagerIdle
    /\ CoverageIdle
    /\ DedupIdle
NextTransform == transform_record \/ transform_record_again
SpecTransform == InitTransform /\ [][NextTransform]_vars

\* the schema functions on their own, on a database file in any state an
\* earlier version of the program, or a run that was cut short, can have left
InitSchema ==
    /\ observations = {}
    /\ start_date = Midnight(WindowStart)
    /\ end_date = EndOfDay(WindowStart)
    /\ DefaultArguments
    /\ same_fetch = FALSE
    /\ Constructed
    /\ TransformIdle
    /\ connection \in {"open", "closed"}
    /\ observations_table \in BOOLEAN
    /\ schema_version \in {NoTable} \cup {Table(rows) : rows \in SUBSET StoredVersions}
    /\ schema_log = <<>>
    /\ RouterIdle
    /\ MergeIdle
    /\ ManagerIdle
    /\ CoverageIdle
    /\ DedupIdle
NextSchema == create_schema \/ get_schema_version \/ validate_schema
SpecSchema == InitSchema /\ [][NextSchema]_vars

\* a UnifiedAPIClient constructed over a database file in any state, with or
\* without an Artportalen client, and a search made with it
InitRouter ==
    /\ observations = {}
    /\ start_date = Midnight(WindowStart)
    /\ end_date = EndOfDay(WindowStart)
    /\ DefaultArguments
    /\ same_fetch = FALSE
    /\ Constructed
    /\ TransformIdle
    /\ connection \in ConnectOutcomes
    /\ observations_table \in BOOLEAN
    /\ schema_version \in {NoTable, Table({}), Table({SCHEMA_VERSION}),
                           Table({SCHEMA_VERSION + 1})}
    /\ schema_log = <<>>
    /\ \E use \in BOOLEAN, imported \in BOOLEAN,
          artportalen \in {"none", "no_key", "authenticated"} :
          UnifiedAPIClient(use, imported, artportalen)
    /\ MergeIdle
    /\ ManagerIdle
    /\ CoverageIdle
    /\ DedupIdle
NextRouter == search_occurrences
SpecRouter == InitRouter /\ [][NextRouter]_vars

\* the merge on its own, for every pair of result lists
InitMerge ==
    /\ observations = {}
    /\ start_date = Midnight(WindowStart)
    /\ end_date = EndOfDay(WindowStart)
    /\ DefaultArguments
    /\ same_fetch = FALSE
    /\ Constructed
    /\ TransformIdle
    /\ SchemaIdle
    /\ RouterIdle
    /\ ManagerIdle
    /\ CoverageIdle
    /\ DedupIdle
    /\ db_results \in ResultLists
    /\ api_results \in ResultLists
    /\ merge_offset \in 0 .. 1
    /\ merge_limit \in 0 .. MaxLimit
    /\ merged = NotMerged
NextMerge == merge_results
SpecMerge == InitMerge /\ [][NextMerge]_vars

\* the connection manager in one process: constructions and close() calls
\* in any order
InitManager ==
    /\ observations = {}
    /\ start_date = Midnight(WindowStart)
    /\ end_date = EndOfDay(WindowStart)
    /\ DefaultArguments
    /\ same_fetch = FALSE
    /\ Constructed
    /\ TransformIdle
    /\ SchemaIdle
    /\ RouterIdle
    /\ MergeIdle
    /\ ManagerIdle
    /\ CoverageIdle
    /\ DedupIdle
NextManager == DuckDBConnection \/ close
SpecManager == InitManager /\ [][NextManager]_vars

\* check_existing_data on its own, for every pair of datetimes
InitCoverage ==
    /\ observations \in CoverageStores
    /\ start_date = Midnight(WindowStart)
    /\ end_date = EndOfDay(WindowStart)
    /\ DefaultArguments
    /\ same_fetch = FALSE
    /\ Constructed
    /\ TransformIdle
    /\ SchemaIdle
    /\ RouterIdle
    /\ MergeIdle
    /\ ManagerIdle
    /\ CoverageIdle
    /\ DedupIdle
NextCoverage == check_existing_data_called
SpecCoverage == InitCoverage /\ [][NextCoverage]_vars

\* _deduplicate_results on its own, for every pair of lists
InitDedup ==
    /\ observations = {}
    /\ start_date = Midnight(WindowStart)
    /\ end_date = EndOfDay(WindowStart)
    /\ DefaultArguments
    /\ same_fetch = FALSE
    /\ Constructed
    /\ TransformIdle
    /\ SchemaIdle
    /\ RouterIdle
    /\ MergeIdle
    /\ ManagerIdle
    /\ CoverageIdle
    /\ results_list \in ResultsLists
    /\ deduplicated = NotDeduplicated
NextDedup == deduplicate_results
SpecDedup == InitDedup /\ [][NextDedup]_vars

(***************************************************************************)
(* Properties of the plan.                                                 *)
(***************************************************************************)
PlanIsComplete == pc = "chunks"
RequestedDays == DateOf(start_date) .. DateOf(end_date)
Covered(d) == \E i \in 1..Len(all_chunks) : d \in ChunkDays(all_chunks[i])
NoOverlap ==
    \A i \in 1..Len(all_chunks), j \in 1..Len(all_chunks) :
        i # j => ChunkDays(all_chunks[i]) \cap ChunkDays(all_chunks[j]) = {}
\* the number of calendar days a planned chunk spans
SpanDays(c) == DateOf(c.end) - DateOf(c.start) + 1

\* C1: when planning is complete, the chunks of the plan are pairwise
\* non-overlapping and every calendar day of [start, end] lies in one of them.
C1_PlanCoversRange ==
    PlanIsComplete => (NoOverlap /\ \A d \in RequestedDays : Covered(d))

\* C2: chunk planning terminates: every iteration of the loops of
\* get_date_chunks, split_date_range_into_weeks and split_date_range_into_days
\* moves the loop variable current forward, so no loop repeats a state.
C2_SplitLoopsAdvance ==
    [][(pc \in {"months", "weeks", "days"} /\ pc' = pc) => DtLt(current, current')]_vars

\* C3: no chunk of the plan that spans more than one day is marked 'process'
\* after a probe that reported more than hard_limit records.
C3_OverLimitOnlySingleDay ==
    \A i \in 1..Len(all_chunks) :
        (all_chunks[i].type = "process" /\ all_over[i]) => SpanDays(all_chunks[i]) = 1
\* a plan in which an over-limit chunk of several days was replaced by daily
\* chunks, one of them still over the limit
C3_Witness ==
    /\ PlanIsComplete
    /\ Len(monthly_chunks) = 1
    /\ SpanDays(monthly_chunks[1]) > 1
    /\ Len(all_chunks) = SpanDays(monthly_chunks[1])
    /\ \E i \in 1..Len(all_chunks) : all_chunks[i].type = "process" /\ all_over[i]

(***************************************************************************)
(* Properties of the table.                                                *)
(***************************************************************************)
\* the columns of a row other than updated_at
WithoutUpdatedAt(row) ==
    [id |-> row.id, observation_date |-> row.observation_date,
     species_name |-> row.species_name, latitude |-> row.latitude,
     api_source |-> row.api_source, created_at |-> row.created_at]

\* C4: when process_date_range has been run twice over the same range with
\* skip_existing = false and the same fetch results, the table holds the rows
\* the first run left, up to updated_at.
C4_SecondRunChangesNothing ==
    (pc = "done" /\ run = 2 /\ ~skip_existing)
        => {WithoutUpdatedAt(row) : row \in observations}
               = {WithoutUpdatedAt(row) : row \in snapshot}

UniqueIds(table) == \A r \in table, q \in table : r.id = q.id => r = q
Ids(recs) == {recs[i].id : i \in 1..Len(recs)}
\* the last record of a batch that carries the id
LastWithId(recs, id) ==
    recs[CHOOSE i \in 1..Len(recs) :
            /\ recs[i].id = id
            /\ \A j \in (i + 1)..Len(recs) : recs[j].id # id]
AttemptSucceeds == pc = "ingest" /\ total_ingested' # total_ingested
AttemptFails == pc = "ingest" /\ store_faults' # store_faults

\* C5: the table never holds two rows with one id; an attempt that succeeds
\* leaves, for every id of the batch, the row whose columns other than the
\* timestamps are those of the last record of the batch with that id, whether
\* or not the id was stored before, and leaves every other row as it was;
\* an attempt that fails leaves the table as it was.
C5_OneRowPerIdLastWriteWins ==
    [][/\ UniqueIds(observations')
       /\ AttemptSucceeds =>
             /\ \A id \in Ids(batch) :
                   \E row \in observations' : Content(row) = LastWithId(batch, id)
             /\ \A row \in observations \cup observations' :
                   row.id \notin Ids(batch) => row \in observations \cap observations'
       /\ AttemptFails => observations' = observations]_vars
\* a row that was written by one call and overwritten by a later one
C5_Witness ==
    \E row \in observations :
        /\ row.created_at < row.updated_at
        /\ row.species_name = "e"
        /\ total_ingested >= 2

(***************************************************************************)
(* Properties of the chunk loop and of the pagination loop.                *)
(***************************************************************************)
\* a call of the fetch function in the pagination loop fails
PageFetchFails == pc = "page" /\ call_no' = call_no + 1 /\ last_response' \in FailureKinds

\* C6: a fetch failure on the first page of a chunk adds 1 to total_failed,
\* writes nothing, marks that chunk FAILED and moves on to the next chunk;
\* and when process_date_range returns, every chunk of the plan has been
\* consumed and the summary carries the totals.
C6_FirstPageFailureFailsOnlyThatChunk ==
    [][/\ (PageFetchFails /\ offset = 0) =>
             /\ total_failed' = total_failed + 1
             /\ total_ingested' = total_ingested
             /\ observations' = observations
             /\ status' = Append(status, "FAILED")
             /\ idx' = idx + 1
             /\ pc' = "chunks"
       /\ pc' = "done" =>
             /\ Len(status') = Len(all_chunks')
             /\ result'.total_chunks = Len(all_chunks')
             /\ result'.processed_chunks = Len(all_chunks')
             /\ result'.total_failed = total_failed'
             /\ result'.total_ingested = total_ingested']_vars
\* a run that returned after a chunk failed on its first page and a later
\* chunk was fetched and written
C6_Witness ==
    /\ pc = "done"
    /\ \E i \in 1..Len(status), j \in 1..Len(status) :
          i < j /\ status[i] = "FAILED" /\ status[j] = "DONE"
    /\ result.total_ingested > 0
    /\ result.total_failed = 1

\* every record that is handed to ingest_batch has a row in the table
AllStored(recs, table) == \A id \in Ids(recs) : \E row \in table : row.id = id

\* C7: a fetch failure on a later page of a chunk ends the pagination with
\* the accumulated records kept and the chunk not failed; the accumulated
\* records are then transformed, and when the batch loop is over the chunk
\* counts as done and, unless the storage failed, every transformed record
\* has its row.
C7_LaterPageFailureKeepsRecords ==
    [][/\ (PageFetchFails /\ offset > 0) =>
             /\ pc' = "fetched"
             /\ all_records' = all_records
             /\ all_records # <<>>
             /\ status' = status
             /\ total_failed' = total_failed
       /\ (pc = "fetched" /\ all_records # <<>>) =>
             /\ pc' = "batches"
             /\ db_records' = TransformAll(all_records, hashseed)
       /\ (pc = "batches" /\ pc' = "chunks") =>
             /\ status' = Append(status, "DONE")
             /\ store_faults = 0 => AllStored(db_records, observations)]_vars
\* the batch loop of a chunk is over, after a later page of the chunk failed
\* and the records of its earlier pages were written
C7_Witness ==
    /\ pc = "batches"
    /\ last_response \in FailureKinds
    /\ Len(all_records) >= limit
    /\ db_records # <<>>
    /\ ~(bi < Len(db_records))
    /\ store_faults = 0
    /\ AllStored(db_records, observations)
    /\ total_failed = 0

\* the offsets of the page calls of the chunk in hand are 0, p, 2p, ...
OffsetsAreMultiples ==
    \A i \in 1..Len(page_offsets) : page_offsets[i] = (i - 1) * limit
\* every page call of the chunk in hand stays under the ceiling
CallsUnderCeiling ==
    /\ \A i \in 1..Len(page_offsets) : page_offsets[i] + limit <= max_total_records
    /\ Len(page_offsets) * limit <= max_total_records

\* C8 as stated: the offsets are 0, p, 2p, ..., whatever the fetch function
\* returns; every call has offset + p <= max_total; at most max_total / p
\* calls are made; at most max_total records are accumulated when no page is
\* longer than p.
C8_OffsetsAreMultiplesOfPageSize ==
    /\ OffsetsAreMultiples
    /\ CallsUnderCeiling
    /\ ~long_page => Len(all_records) <= max_total_records

\* C8, amended: the offsets start at 0 and grow by the number of records the
\* page before returned, which is at least p, so they are 0, p, 2p, ... when
\* no page is longer than p; every call has offset + p <= max_total; at most
\* max_total / p calls are made; at most max_total records are accumulated
\* when no page is longer than p; every iteration that stays in the loop
\* moves the offset at least p closer to the ceiling.
C8_OffsetsGrowByPageLength ==
    [][/\ (page_offsets' # <<>>) => page_offsets'[1] = 0
       /\ \A i \in 2..Len(page_offsets') : page_offsets'[i] >= page_offsets'[i - 1] + limit
       /\ pc' = "page" => offset' = Len(all_records')
       /\ CallsUnderCeiling'
       /\ ~long_page' => (OffsetsAreMultiples' /\ Len(all_records') <= max_total_records)
       /\ (pc = "page" /\ pc' = "page") => offset' >= offset + limit]_vars
\* a second page call, made at an offset that is not a multiple of p
C8_Witness ==
    /\ long_page
    /\ Len(page_offsets) = 2
    /\ page_offsets[2] = limit + 1

(***************************************************************************)
(* Properties of the retry loop of ingest_batch.                           *)
(***************************************************************************)
\* C9 as stated: one batch is attempted at most max_retries times.
C9_AtMostMaxRetriesAttempts == attempts <= max_retries

\* C9, amended: one batch is attempted at most max_retries + 1 times, the
\* first attempt and max_retries retries; it is given up after exactly that
\* many failed attempts.
C9_AtMostOneAttemptMore ==
    [][/\ attempts' <= max_retries + 1
       /\ (pc = "ingest" /\ total_failed' # total_failed) => attempts' = max_retries + 1]_vars
\* a batch that was given up after max_retries + 1 attempts
C9_Witness ==
    /\ pc = "idle"
    /\ attempts = max_retries + 1
    /\ total_failed = Len(batch)
    /\ batch # <<>>

\* C10: the sleep after failed attempt number a (a = 0, 1, 2, ...) of a batch
\* lasts retry_delay * 2^a.
C10_BackoffIsExponential ==
    \A a \in 0..(Len(sleeps) - 1) : sleeps[a + 1] = retry_delay * (2 ^ a)

(***************************************************************************)
(* Properties of the counters.                                             *)
(***************************************************************************)
\* the outcomes of one upsert attempt of the batch in hand
BatchSucceeds == pc = "ingest" /\ pc' # "ingest" /\ store_faults' = store_faults
BatchRetried == pc = "ingest" /\ pc' = "ingest"
BatchGivenUp == pc = "ingest" /\ pc' # "ingest" /\ store_faults' # store_faults
\* the batch loop hands the next batch to ingest_batch
BatchHanded == pc = "batches" /\ pc' = "ingest"
Min(a, b) == IF a < b THEN a ELSE b

\* C11: a batch that is given up adds its record count to total_failed and
\* nothing to total_ingested, and the batch loop goes on behind it; a failed
\* attempt that is retried changes no counter; a batch that succeeds adds its
\* record count to total_ingested and nothing to total_failed; the batch loop
\* hands out consecutive slices of db_records, so no batch is handed out twice.
C11_BatchCountedOnce ==
    [][/\ BatchGivenUp =>
             /\ total_failed' = total_failed + Len(batch)
             /\ total_ingested' = total_ingested
             /\ observations' = observations
             /\ pc' = (IF ret = "run" THEN "batches" ELSE "idle")
             /\ <<db_records', bi', idx', status'>> = <<db_records, bi, idx, status>>
       /\ BatchRetried => <<total_failed', total_ingested'>> = <<total_failed, total_ingested>>
       /\ BatchSucceeds =>
             /\ total_ingested' = total_ingested + Len(batch)
             /\ total_failed' = total_failed
       /\ BatchHanded =>
             /\ batch' = SubSeq(db_records, bi + 1, Min(bi + batch_size, Len(db_records)))
             /\ bi' = bi + batch_size
             /\ db_records' = db_records]_vars
\* a batch is in hand after an earlier batch of the run was given up, with no
\* chunk failed
C11_Witness ==
    /\ pc = "ingest"
    /\ ret = "run"
    /\ attempts = 0
    /\ total_failed > 1
    /\ store_faults > max_retries
    /\ \A i \in 1..Len(status) : status[i] # "FAILED"

\* the number of chunks of the run with the given outcome
Outcomes(o) == Cardinality({i \in 1..Len(status) : status[i] = o})

\* C12: the run returns success = true exactly when every chunk was skipped
\* or at least 80% of the chunks that were not skipped reached DONE, and the
\* processed_chunks it returns counts the skipped and the DONE chunks only.
C12_SuccessMeansEightyPercentDone ==
    pc = "done" =>
        /\ result.success <=>
              \/ Outcomes("SKIPPED") = Len(status)
              \/ 5 * Outcomes("DONE") >= 4 * (Len(status) - Outcomes("SKIPPED"))
        /\ result.processed_chunks = Outcomes("SKIPPED") + Outcomes("DONE")

\* C13: a second run with skip_existing = true over a range the first run
\* ingested, in which every chunk is skipped, returns skipped_chunks =
\* total_chunks, total_ingested = 0 and total_failed = 0, whether it is made
\* by a new pipeline or by the pipeline of the first run.
C13_SecondRunCountsOnlyItself ==
    (/\ pc = "done"
     /\ run = 2
     /\ skip_existing
     /\ snapshot # {}
     /\ status # <<>>
     /\ \A i \in 1..Len(status) : status[i] = "SKIPPED")
        => /\ result.skipped_chunks = result.total_chunks
           /\ result.total_ingested = 0
           /\ result.total_failed = 0

\* the number of raw records that transform to null
Nulls(raws) ==
    Cardinality({i \in 1..Len(raws) :
                    transform_artportalen_to_db_record(raws[i], hashseed) = Null})
\* the only chunk of the plan is finished after a pagination that no failure,
\* no over-long page and no max_records argument cut short, and no write failed
OnlyChunkFinishedCleanly ==
    /\ pc = "batches"
    /\ pc' = "chunks"
    /\ Len(all_chunks) = 1
    /\ last_response = "ok"
    /\ ~long_page
    /\ max_records = "none"
    /\ store_faults = 0

\* C14: when the only chunk of a run was fetched in full pages and a short
\* last page, N records in all of which k transform to null, and no write
\* failed, then total_ingested = N - k, total_failed = 0 and
\* processed_chunks = 1; the summary returns these counters and
\* total_chunks = 1.
C14_CountsOfOneCleanChunk ==
    [][/\ OnlyChunkFinishedCleanly =>
             /\ Len(all_records) <= max_total_records
             /\ total_ingested' = Len(all_records) - Nulls(all_records)
             /\ total_failed' = 0
             /\ processed_chunks' = 1
       /\ pc' = "done" =>
             /\ result'.total_chunks = Len(all_chunks')
             /\ result'.processed_chunks = processed_chunks'
             /\ result'.total_ingested = total_ingested'
             /\ result'.total_failed = total_failed']_vars
\* two full pages and a short one, five records of which one has no
\* latitude, have been written: four records are counted
C14_Witness ==
    /\ pc = "batches"
    /\ ~(bi < Len(db_records))
    /\ Len(all_chunks) = 1
    /\ page_offsets = <<0, limit, 2 * limit>>
    /\ Len(all_records) = 2 * limit + 1
    /\ Nulls(all_records) = 1
    /\ last_response = "ok"
    /\ store_faults = 0
    /\ observations # {}
    /\ total_ingested = 2 * limit
    /\ total_failed = 0

(***************************************************************************)
(* Properties of transform_artportalen_to_db_record.                       *)
(***************************************************************************)
\* the fields of the raw record that may hold the latitude and the longitude:
\* those of the location object when it is a dictionary, those of the record
\* itself otherwise
LatitudeFields(record) ==
    IF record.location.kind = "dict"
    THEN {record.location.decimalLatitude, record.location.latitude}
    ELSE {record.decimalLatitude, record.latitude}
LongitudeFields(record) ==
    IF record.location.kind = "dict"
    THEN {record.location.decimalLongitude, record.location.longitude}
    ELSE {record.decimalLongitude, record.longitude}
\* no field holds a value that float() accepts
NoneCoercible(fields) == \A v \in fields : ~Coercible(v)

\* C15: for a raw record in which no latitude field, or no longitude field,
\* holds a value that can be coerced to a float, the transformation returns
\* null, wherever the coordinates are looked for.
C15_MissingCoordinatesGiveNull ==
    (/\ transformed # NotCalled
     /\ \/ NoneCoercible(LatitudeFields(raw_record))
        \/ NoneCoercible(LongitudeFields(raw_record)))
        => transformed = Null
\* null was returned for a record whose location object holds a latitude
\* that is no number, and for one whose flat fields hold no longitude
C15_Witness ==
    /\ transformed = Null
    /\ ObservationDate(raw_record) # "fails"
    /\ \/ /\ raw_record.location.kind = "dict"
          /\ raw_record.location.decimalLatitude = "abc"
          /\ raw_record.location.latitude = "absent"
          /\ ~NoneCoercible(LongitudeFields(raw_record))
       \/ /\ raw_record.location.kind = "absent"
          /\ NoneCoercible(LongitudeFields(raw_record))
          /\ ~NoneCoercible(LatitudeFields(raw_record))


\* the supported locations of the observation date, in the order of
\* preference: the dates of the event object first, the flat fields after
DateLocations(record) ==
    (IF record.event.kind = "dict"
     THEN <<record.event.startDate, record.event.endDate>>
     ELSE <<>>)
    \o <<record.eventDate, record.observationDate, record.startDate, record.date>>
\* a field holds a parseable ISO date
HoldsDate(v) == v.kind = "str" /\ v.d \in CalendarDates
\* the calendar date of the first location that holds one; "none" when no
\* location does
RECURSIVE FirstDate(_)
FirstDate(fields) ==
    IF fields = <<>> THEN "none"
    ELSE IF HoldsDate(Head(fields)) THEN Head(fields).d
    ELSE FirstDate(Tail(fields))

\* C16: for a raw record that holds a parseable ISO date in a supported
\* location (and the coordinates of the sample), the transformation yields a
\* record whose observation date is the calendar date of the first location
\* holding one: the event object first, the flat fields when the event
\* object yields no date.
C16_DateFoundInEveryLocation ==
    (/\ transformed # NotCalled
     /\ raw_record \in DateRecords
     /\ FirstDate(DateLocations(raw_record)) # "none")
        => /\ transformed # Null
           /\ transformed.observation_date = FirstDate(DateLocations(raw_record))
\* the part of C16 the code keeps: a date held by the event object, or by
\* the first flat field present when there is no event object, is extracted
\* in every ISO form
C16_DateOfFirstLocationPresent ==
    (/\ transformed # NotCalled
     /\ raw_record \in DateRecords
     /\ \/ /\ raw_record.event.kind = "dict"
           /\ FirstDate(<<raw_record.event.startDate, raw_record.event.endDate>>) # "none"
        \/ /\ raw_record.event.kind # "dict"
           /\ raw_record.eventDate.kind = "absent"
           /\ raw_record.observationDate.kind = "absent"
           /\ raw_record.startDate.kind = "absent"
           /\ HoldsDate(raw_record.date))
        => /\ transformed # Null
           /\ transformed.observation_date = FirstDate(DateLocations(raw_record))


\* no id field of the record holds a usable id
NoUsableId(record) ==
    /\ record.occurrence.kind = "dict" => ~Truthy(record.occurrence.occurrenceId)
    /\ ~Truthy(record.occurrenceId)
    /\ ~Truthy(record.id)
    /\ ~Truthy(record.observationId)

\* C17: a record with no usable id gets the same derived id each time it is
\* transformed, in the same process or in another.
C17_DerivedIdIsStable ==
    (/\ NoUsableId(raw_record)
     /\ transformed \notin {NotCalled, Null}
     /\ transformed_again \notin {NotCalled, Null})
        => transformed_again.id = transformed.id
\* the part of C17 the code keeps: a record that has a usable id keeps it,
\* and a derived id is the same within one process
C17_IdIsStableWithinProcess ==
    [][(/\ transformed \notin {NotCalled, Null}
        /\ transformed_again' \notin {NotCalled, Null}
        /\ (~NoUsableId(raw_record) \/ hashseed' = hashseed))
          => transformed_again'.id = transformed.id]_vars

(***************************************************************************)
(* Properties of the schema functions.                                     *)
(***************************************************************************)
\* the last call of a schema function, when it was validate_schema
LastIsValidate ==
    /\ schema_log # <<>>
    /\ schema_log[Len(schema_log)].op = "validate_schema"
\* the observations table exists and the highest version stored is
\* SCHEMA_VERSION
SchemaInPlace ==
    /\ observations_table
    /\ schema_version # NoTable
    /\ \E v \in Rows(schema_version) :
          v = SCHEMA_VERSION /\ \A w \in Rows(schema_version) : w <= v

\* C18: validate_schema returns a boolean, never raises; on an open
\* connection it returns true exactly when the observations table exists
\* and the stored schema version equals SCHEMA_VERSION, and false when the
\* observations table is missing, the version table is missing or empty, or
\* the version differs.  A validation that follows a successful
\* create_schema returns true, unless a later version is stored.
C18_ValidateSchemaTrueExactlyWhenInPlace ==
    /\ LastIsValidate =>
          /\ schema_log[Len(schema_log)].returned \in BOOLEAN
          /\ schema_log[Len(schema_log)].returned => SchemaInPlace
          /\ (connection = "open" /\ SchemaInPlace)
                => schema_log[Len(schema_log)].returned
    /\ \A i \in 1 .. Len(schema_log) - 1 :
          (/\ schema_log[i].op = "create_schema"
           /\ schema_log[i].returned
           /\ schema_log[i + 1].op = "validate_schema"
           /\ Rows(schema_version) \subseteq 0 .. SCHEMA_VERSION)
              => schema_log[i + 1].returned
\* on a database file with nothing in it, validate_schema returned false,
\* create_schema succeeded, validate_schema returned true
C18_Witness ==
    /\ schema_log = <<SchemaCall("validate_schema", FALSE),
                      SchemaCall("create_schema", TRUE),
                      SchemaCall("validate_schema", TRUE)>>
    /\ schema_version = Table({SCHEMA_VERSION})

(***************************************************************************)
(* Properties of the UnifiedAPIClient.                                     *)
(***************************************************************************)
\* search_occurrences has returned
Answered == query.asked
\* the local store is disabled, could not be initialised, or failed the
\* validation of its schema
StoreUnavailable ==
    \/ ~use_database
    \/ connection # "open"
    \/ ~SchemaInPlace

\* C19: when the local store is disabled, could not be initialised or failed
\* schema validation, search_occurrences does not call the database client
\* and returns no result whose source is 'database' or 'mixed', whatever the
\* dates and force_api; an API answers.
C19_UnavailableStoreIsNeverQueried ==
    (Answered /\ StoreUnavailable)
        => /\ \A i \in 1 .. Len(calls) : calls[i].client # "database"
           /\ answer.source \in {"artportalen", "gbif"}
           /\ calls # <<>>
           /\ calls[Len(calls)].client = answer.source
\* a range older than the database threshold was asked, with no override,
\* of a client whose database file has no valid schema
C19_Witness ==
    /\ Answered
    /\ use_database
    /\ connection = "open"
    /\ ~SchemaInPlace
    /\ query.force_api \in {"None", "auto"}
    /\ query.end_date # NoDay
    /\ query.start_date # NoDay
    /\ days_ago(query.end_date) > DATABASE_DATE_THRESHOLD_DAYS
    /\ days_ago(query.start_date) > DATABASE_DATE_THRESHOLD_DAYS
    /\ answer.source = "gbif"


\* the whole range asked for lies within date_threshold_days of today
WholeRangeRecent ==
    /\ query.start_date # NoDay
    /\ query.end_date # NoDay
    /\ Today - query.start_date[1] <= date_threshold_days
    /\ Today - query.end_date[1] <= date_threshold_days

\* C20: with no manual override and an authenticated Artportalen client, a
\* query whose whole range lies within date_threshold_days of today goes to
\* the Artportalen client first and is never answered from the database:
\* the database client is not called, and GBIF answers only after
\* Artportalen failed.
C20_RecentRangeGoesToRecentApi ==
    (/\ Answered
     /\ query.force_api \in {"None", "auto"}
     /\ artportalen_client = "authenticated"
     /\ WholeRangeRecent)
        => /\ calls[1].client = "artportalen"
           /\ \A i \in 1 .. Len(calls) : calls[i].client # "database"
           /\ answer.source \in {"artportalen", "gbif"}
           /\ answer.source = "gbif"
                 => answer.reason \in {"artportalen_failed", "artportalen_exception"}
           /\ answer.source = "artportalen" => answer.reason = "recent_date_range"
\* [today-2, today] was asked of a client whose database is available, and
\* Artportalen answered
C20_Witness ==
    /\ Answered
    /\ database_available
    /\ query = [start_date |-> DaysAgo(2), end_date |-> DaysAgo(0),
                force_api |-> "auto", asked |-> TRUE]
    /\ calls = <<Call("artportalen", DaysAgo(2), DaysAgo(0), "ok")>>
    /\ answer = Answer("artportalen", "recent_date_range", FALSE, FALSE)


\* no manual override was given
NoOverride == query.force_api \in {"None", "auto"}
\* both ends of the range asked for are older than the database threshold
WholeRangeHistorical ==
    /\ query.start_date # NoDay
    /\ query.end_date # NoDay
    /\ Today - query.start_date[1] > DATABASE_DATE_THRESHOLD_DAYS
    /\ Today - query.end_date[1] > DATABASE_DATE_THRESHOLD_DAYS
\* the clients called, in order
Clients == [i \in 1 .. Len(calls) |-> calls[i].client]

\* C21: with no manual override, a query whose whole range is historical
\* (both ends older than the database threshold, as [today-60, today-50])
\* goes to the database when the store is available, which answers it
\* unless its query fails, and to GBIF when the store is not available or
\* its query failed; the Artportalen client is never called.
C21_HistoricalRangeGoesToStorage ==
    (Answered /\ NoOverride /\ WholeRangeHistorical)
        => /\ \A i \in 1 .. Len(calls) : calls[i].client # "artportalen"
           /\ ~StoreUnavailable
                 => /\ calls[1] = Call("database", query.start_date, query.end_date,
                                       calls[1].response)
                    /\ calls[1].response \in {"ok", "empty"}
                          => Clients = <<"database">> /\ answer.source = "database"
                    /\ calls[1].response \in {"error", "raises"}
                          => Clients = <<"database", "gbif">> /\ answer.source = "gbif"
           /\ StoreUnavailable
                 => Clients = <<"gbif">> /\ answer.source = "gbif"
\* [today-60, today-50] was asked with force_api "auto" of a client whose
\* store is available and whose Artportalen client is authenticated, and
\* the database answered
C21_Witness ==
    /\ Answered
    /\ ~StoreUnavailable
    /\ artportalen_client = "authenticated"
    /\ query = [start_date |-> DaysAgo(60), end_date |-> DaysAgo(50),
                force_api |-> "auto", asked |-> TRUE]
    /\ calls = <<Call("database", DaysAgo(60), DaysAgo(50), "ok")>>
    /\ answer = Answer("database", "historical_date_range", FALSE, FALSE)


\* the start of the range asked for is older than the database threshold
\* and its end lies within date_threshold_days of today
StartHistoricalEndRecent ==
    /\ query.start_date # NoDay
    /\ query.end_date # NoDay
    /\ Today - query.start_date[1] > DATABASE_DATE_THRESHOLD_DAYS
    /\ Today - query.end_date[1] <= date_threshold_days

\* C22: with the store available and no manual override, a query whose
\* start is historical and whose end is recent (as [today-60, today-2]) is
\* answered with source 'mixed': the database is asked for the historical
\* part, an API for the recent part, and the two parts are disjoint and
\* cover the range asked for.
C22_MixedRangeIsSplit ==
    (Answered /\ NoOverride /\ ~StoreUnavailable /\ StartHistoricalEndRecent)
        => /\ answer.source = "mixed"
           /\ Len(calls) >= 2
           /\ calls[1].client = "database"
           /\ calls[1].start_date = query.start_date
           /\ calls[Len(calls)].client \in {"artportalen", "gbif"}
           /\ calls[Len(calls)].end_date = query.end_date
           /\ calls[Len(calls)].start_date[1] = calls[1].end_date[1] + 1
\* no search is ever answered with source 'mixed'
C22_NeverMixed == answer.source # "mixed"

\* C23: with the store available and no manual override, every query whose
\* end date is more than date_threshold_days before today is sent to the
\* database first, not to GBIF (as [today-20, today-10] with threshold 7).
C23_OlderThanRecentGoesToStorage ==
    (/\ Answered
     /\ NoOverride
     /\ ~StoreUnavailable
     /\ query.end_date # NoDay
     /\ query.start_date # NoDay => query.start_date[1] <= query.end_date[1]
     /\ Today - query.end_date[1] > date_threshold_days)
        => calls[1].client = "database"
\* what the code does for a range that ends after the database threshold
\* and before the Artportalen threshold: GBIF alone is called
C23_GapGoesToGbif ==
    (/\ Answered
     /\ NoOverride
     /\ query.end_date # NoDay
     /\ Today - query.end_date[1] > date_threshold_days
     /\ Today - query.end_date[1] <= DATABASE_DATE_THRESHOLD_DAYS)
        => Clients = <<"gbif">>


\* C24: a historical range for which the store holds no record is not
\* answered with the empty result of the database: GBIF is asked.
C24_EmptyStorageIsNotTheAnswer ==
    (/\ Answered
     /\ NoOverride
     /\ WholeRangeHistorical
     /\ \E i \in 1 .. Len(calls) :
           calls[i].client = "database" /\ calls[i].response = "empty")
        => /\ answer.source = "gbif"
           /\ ~answer.empty

(***************************************************************************)
(* C25: the merged result of a mixed range.                                *)
(***************************************************************************)
\* the key that tells one sighting from another: the rounded coordinates,
\* the event date and the species, or the date and the species when the
\* record has no coordinates
DedupKey(r) ==
    IF r.latitude # <<>> /\ r.longitude # <<>>
    THEN <<Round4(r.latitude[1]), Round4(r.longitude[1]), r.eventDate, r.species>>
    ELSE <<r.eventDate, r.species>>
Merged == merged # NotMerged
IsSortedByDateDescending(list) ==
    \A i \in 1 .. Len(list) - 1 : list[i].eventDate >= list[i + 1].eventDate
\* the records that go into the merge, in the order of the sort
AllSorted == SortByDateDescending(db_results \o api_results)

C25_MergedIsSortedAndSliced ==
    Merged =>
        /\ IsSortedByDateDescending(merged[1])
        /\ merge_limit # 0 => Len(merged[1]) <= merge_limit
        /\ merged[1] = (IF merge_limit # 0
                        THEN TakeFirst(DropFirst(AllSorted, merge_offset), merge_limit)
                        ELSE DropFirst(AllSorted, merge_offset))
        /\ \A i \in 1 .. Len(merged[1]) :
              \E j \in 1 .. Len(db_results \o api_results) :
                 merged[1][i] = (db_results \o api_results)[j]

(***************************************************************************)
(* C26, C27: the manual override and the fallback of the recent API.       *)
(***************************************************************************)
\* C26: the manual override decides first.  With force_api = "gbif" neither
\* the database nor Artportalen is queried, whatever the range; with
\* force_api = "artportalen" and an authenticated Artportalen client,
\* Artportalen is queried first, whatever the range, and the database is not
\* queried.
C26_ManualOverrideDecidesFirst ==
    Answered =>
        /\ query.force_api = "gbif" =>
              \A i \in 1 .. Len(calls) : calls[i].client = "gbif"
        /\ (query.force_api = "artportalen" /\ ArtportalenAvailable) =>
              /\ calls[1].client = "artportalen"
              /\ \A i \in 1 .. Len(calls) : calls[i].client # "database"
\* a historical range asked of a client whose database is ready, with
\* force_api = "gbif": GBIF alone is called
C26_Witness ==
    /\ Answered
    /\ database_available
    /\ query.force_api = "gbif"
    /\ WholeRangeHistorical
    /\ Clients = <<"gbif">>

\* the reason a failed call of Artportalen leaves
FailureReason(response) ==
    IF response = "error" THEN "artportalen_failed" ELSE "artportalen_exception"
\* C27: when Artportalen is selected and fails, by an error result or by an
\* exception, GBIF is asked for the same range, and the result names the
\* failure in its selection reason and carries the error of Artportalen,
\* whether GBIF succeeds or not.
C27_FailedArtportalenFallsBackToGbif ==
    \A i \in 1 .. Len(calls) :
       (calls[i].client = "artportalen" /\ calls[i].response # "ok"
        /\ answer.source # "mixed") =>
          /\ Len(calls) = i + 1
          /\ calls[i + 1].client = "gbif"
          /\ calls[i + 1].start_date = calls[i].start_date
          /\ calls[i + 1].end_date = calls[i].end_date
          /\ calls[i].start_date = query.start_date
          /\ calls[i].end_date = query.end_date
          /\ answer.source = "gbif"
          /\ answer.reason = FailureReason(calls[i].response)
          /\ answer.artportalen_error
          /\ answer.error = (calls[i + 1].response = "error")
\* Artportalen raised for a recent range and GBIF failed after it
C27_Witness ==
    /\ Len(calls) = 2
    /\ calls[1].client = "artportalen"
    /\ calls[1].response = "raises"
    /\ calls[2].client = "gbif"
    /\ calls[2].response = "error"
    /\ answer.reason = "artportalen_exception"
    /\ answer.artportalen_error

(***************************************************************************)
(* C28: failures and the reason of the selection.                          *)
(***************************************************************************)
\* the reasons _should_use_database and _should_use_artportalen give, and
\* the reason of a merged result: none of them tells of a failure
SelectionReasons ==
    {"database_unavailable", "manual_api_selection", "no_date_range",
     "historical_date_range", "recent_date_range", "manual_selection",
     "artportalen_unavailable", "mixed_range"}
FailedCall(i) == calls[i].response \in {"error", "raises"}

\* C28: a failure at any stage is recorded in the reason of the result: a
\* failed query of the database, for a historical range or for the
\* historical part of a mixed range, and a failed query of Artportalen each
\* leave a trace in the reason; none is silently masked.
C28_EveryFailureIsInTheReason ==
    \A i \in 1 .. Len(calls) :
       (FailedCall(i) /\ calls[i].client \in {"database", "artportalen"}) =>
          answer.reason \notin SelectionReasons

\* C28, what the code does for the database: a failed query of the database
\* is followed by GBIF, and the reason of the result is the reason
\* _should_use_artportalen gave, as if the database had not been asked.
C28_DatabaseFailureLeavesNoTrace ==
    \A i \in 1 .. Len(calls) :
       (FailedCall(i) /\ calls[i].client = "database") =>
          /\ answer.source = "gbif"
          /\ answer.reason \in {"historical_date_range", "artportalen_unavailable"}
          /\ ~answer.artportalen_error

(***************************************************************************)
(* C29: a store held by another process.                                   *)
(***************************************************************************)
\* what a caller of UnifiedAPIClient sees of the database after __init__
ClientState == <<use_database, database_available, database_client>>
\* the same, as __init__ leaves it for the arguments and the outcome of
\* duckdb.connect
StateAfterInit(use, imported, conn) ==
    <<UseDatabase(use, imported, conn),
      DatabaseReady(use, imported, conn, observations_table, schema_version),
      IF DatabaseReady(use, imported, conn, observations_table, schema_version)
      THEN "DatabaseQueryClient" ELSE "none">>

\* C29: when the store is opened while another process holds it, the lock
\* conflict is reported so that the caller can tell it from every other I/O
\* or initialisation error: the client that asked for the database is not
\* left as it is left by a store that cannot be opened for another reason.
C29_LockConflictIsDistinct ==
    connection = "locked" =>
       \A use \in BOOLEAN, imported \in BOOLEAN :
          (use /\ imported /\ ClientState = StateAfterInit(use, imported, "locked")) =>
             ClientState # StateAfterInit(use, imported, "closed")

\* C29, what the code does: whatever made duckdb.connect raise, the client
\* is left without a database, and a search gives the database as
\* unavailable and never asks it.
C29_AnyConnectErrorDisablesDatabase ==
    connection # "open" =>
       /\ ClientState = <<FALSE, FALSE, "none">>
       /\ \A i \in 1 .. Len(calls) : calls[i].client # "database"
       /\ should_use_database(query.start_date, query.end_date, query.force_api)
             = <<FALSE, "database_unavailable">>

(***************************************************************************)
(* C30: what a construction of the connection manager returns.             *)
(***************************************************************************)
ReturnedManager(i) ==
    /\ manager_log[i].op = "DuckDBConnection"
    /\ ~manager_log[i].raised

\* C30: DuckDBConnection(p) returns a manager whose db_path is p and whose
\* connection is open and passes health_check, whatever constructions (with
\* the same or another path) and close() calls came before it in the
\* process.
C30_ConstructionReturnsOpenManagerOfPath ==
    \A i \in 1 .. Len(manager_log) :
       ReturnedManager(i) =>
          /\ manager_log[i].returned[1].db_path = manager_log[i].path
          /\ manager_log[i].returned[1].connection = "open"
          /\ HealthCheck(manager_log[i].returned)

\* C30, what the code does guarantee: the first construction of the process
\* returns an open manager of the path asked for, and every later one
\* returns the instance the class already holds, with the path of the first
\* construction and the connection as the calls before left it.
C30_LaterConstructionsReturnTheFirstInstance ==
    \A i \in 1 .. Len(manager_log) :
       ReturnedManager(i) =>
          IF i = 1
          THEN manager_log[i].returned = Instance(manager_log[i].path, "open")
          ELSE /\ manager_log[i].returned[1].db_path = manager_log[1].path
               /\ manager_log[i].returned[1].connection =
                     (IF manager_log[i - 1].op = "close" THEN "none"
                      ELSE IF manager_log[i - 1].raised THEN "none"
                      ELSE manager_log[i - 1].returned[1].connection)

(***************************************************************************)
(* C31: check_existing_data.                                               *)
(***************************************************************************)
Checked == coverage # NotChecked
\* C31: check_existing_data(start, end) returns true exactly when the table
\* holds an observation whose date is on or after the day of start and on
\* or before the day of end, and returns false when the query fails.
C31_CoverageIsOneRowInRange ==
    Checked =>
       coverage[1].returned =
          (/\ ~coverage[1].raises
           /\ \E row \in observations :
                 /\ coverage[1].start.day <= row.observation_date
                 /\ row.observation_date <= coverage[1].end.day)
\* the only observation in range is of the day of the end date, which is
\* given as the midnight that starts it: the call returns true
C31_Witness ==
    /\ Checked
    /\ coverage[1].returned
    /\ coverage[1].end.sec = 0
    /\ coverage[1].start.day < coverage[1].end.day
    /\ \A row \in observations :
          row.observation_date >= coverage[1].start.day =>
             row.observation_date = coverage[1].end.day

(***************************************************************************)
(* C32: the timestamps of a row.                                           *)
(***************************************************************************)
BatchIds == {batch[i].id : i \in 1 .. Len(batch)}
\* C32: an upsert of an id that already exists leaves the created_at of its
\* row unchanged and sets its updated_at to the time of the upsert;
\* created_at is written only by the first insert of the id.
C32_UpsertKeepsCreatedAt ==
    [][total_ingested' # total_ingested =>
          \A id \in BatchIds :
             \A new \in RowsWithId(observations', id) :
                /\ new.updated_at = now
                /\ IF RowsWithId(observations, id) # {}
                   THEN \A old \in RowsWithId(observations, id) :
                           new.created_at = old.created_at
                   ELSE new.created_at = now]_vars
\* a row that was inserted by one call of ingest_batch and updated by a
\* later one
C32_Witness ==
    \E row \in observations : row.created_at < row.updated_at

(***************************************************************************)
(* C33, C34: skipped chunks, and the life of a planned chunk.              *)
(***************************************************************************)
\* a chunk is added to the plan with the disposition 'skip'
MarkedSkip ==
    /\ Len(all_chunks') = Len(all_chunks) + 1
    /\ all_chunks'[Len(all_chunks')].type = "skip"
\* the chunk in hand is consumed and is a 'skip' chunk
SkipConsumed ==
    /\ pc = "chunks"
    /\ idx' = idx + 1
    /\ all_chunks[idx].type = "skip"
\* the store holds an observation of the days of the chunk
HoldsRowOf(c) ==
    \E row \in observations :
       DateOf(c.start) <= row.observation_date /\ row.observation_date <= DateOf(c.end)

\* C33: a chunk is marked skip only when skip_existing is set and the store
\* reports coverage for it, and then without a probe and without a split;
\* when the plan is processed, the fetch function is not called and nothing
\* is written for it, and it adds one to skipped_chunks and one to
\* processed_chunks.
C33_SkippedChunkIsNeitherProbedNorFetched ==
    [][/\ MarkedSkip =>
             /\ skip_existing
             /\ HoldsRowOf(todo[1])
             /\ all_chunks'[Len(all_chunks')].start = todo[1].start
             /\ all_chunks'[Len(all_chunks')].end = todo[1].end
             /\ todo' = Tail(todo)
             /\ call_no' = call_no
             /\ fetch_log' = fetch_log
             /\ pc' = "split"
       /\ SkipConsumed =>
             /\ call_no' = call_no
             /\ fetch_log' = fetch_log
             /\ observations' = observations
             /\ total_ingested' = total_ingested
             /\ total_failed' = total_failed
             /\ skipped_chunks' = skipped_chunks + 1
             /\ processed_chunks' = processed_chunks + 1
             /\ status' = Append(status, "SKIPPED")]_vars
\* a run whose first chunk was skipped: no call of the fetch function was
\* made for it
C33_Witness ==
    /\ pc = "chunks"
    /\ idx = 2
    /\ status = <<"SKIPPED">>
    /\ skipped_chunks = 1
    /\ processed_chunks = 1
    /\ call_no = 0
    /\ observations # {}

ChunkOutcomes == {"SKIPPED", "DONE", "FAILED"}
\* C34: every planned chunk is consumed exactly once, in the order of the
\* plan, and ends in exactly one of SKIPPED, DONE (also when its fetch
\* returned no record) and FAILED; the plan is fixed before the first chunk
\* is fetched; and at the end of a run skipped_chunks <= processed_chunks
\* <= total_chunks.
C34_EveryChunkConsumedOnceInOrder ==
    [][/\ Len(status') = idx' - 1
       /\ \A i \in 1 .. Len(status') : status'[i] \in ChunkOutcomes
       /\ (status' # status /\ status' # <<>>) =>
             /\ status' = Append(status, status'[Len(status')])
             /\ idx' = idx + 1
             /\ (status'[idx] = "SKIPPED") = (all_chunks[idx].type = "skip")
       /\ pc \in {"chunks", "page", "fetched", "batches", "ingest"} =>
             all_chunks' = all_chunks
       /\ (call_no' # call_no /\ pc' \in {"page", "fetched", "chunks"} /\ pc # "idle") =>
             /\ pc \in {"page"}
             /\ all_chunks' = all_chunks
       /\ (pc' = "done" /\ pc # "done") =>
             /\ Len(status') = Len(all_chunks')
             /\ result'.total_chunks = Len(all_chunks')
             /\ result'.skipped_chunks <= result'.processed_chunks
             /\ result'.processed_chunks <= result'.total_chunks
             /\ result'.skipped_chunks =
                   Cardinality({i \in 1 .. Len(status') : status'[i] = "SKIPPED"})]_vars
\* a run that ended after a skipped chunk and then a chunk whose fetch
\* returned no record
C34_Witness ==
    /\ pc = "done"
    /\ status = <<"SKIPPED", "DONE">>
    /\ result.total_ingested = 0
    /\ result.total_failed = 0
    /\ result.skipped_chunks = 1
    /\ result.processed_chunks = 2
    /\ result.total_chunks = 2

(***************************************************************************)
(* A run over one day that the caller repeats with the default arguments.  *)
(***************************************************************************)
\* process_date_range over one day of an empty table, called a second time
\* by the same pipeline or by a new one; in either run every call of the
\* fetch function and every upsert may fail or work
InitRecover ==
    /\ observations = {}
    /\ start_date = Midnight(WindowStart)
    /\ end_date = EndOfDay(WindowStart)
    /\ DefaultArguments
    /\ same_fetch = FALSE
    /\ Constructed
    /\ OthersIdle
\* the steps of the planner that a range of one day can take
PlanningOneDay ==
    \/ process_date_range
    \/ get_date_chunks
    \/ recursive_split_chunk_skip
    \/ recursive_split_chunk_probe_raises
    \/ recursive_split_chunk_within_limit
    \/ recursive_split_chunk_over_limit
    \/ plan_complete
NextRecover == PlanningOneDay \/ Processing \/ IngestAttempts \/ Callers
SpecRecover == InitRecover /\ [][NextRecover]_vars

\* the second run has planned its chunks and has not consumed any; result
\* is what the first run returned
RerunPlanned == run = 2 /\ pc = "chunks" /\ idx = 1
\* the first run wrote a part of its chunk and lost another part: a batch
\* exhausted its retries (its records are counted in total_failed) while
\* another batch was written
FirstRunPartial ==
    /\ result.total_failed > 0
    /\ result.total_ingested > 0
    /\ snapshot # {}
\* C35: when process_date_range is run again over the same range with its
\* default arguments after a run that ingested its chunk only in part, the
\* chunk is planned for fetching again, so that the records the first run
\* lost are fetched and written.
C35_RerunFetchesPartialChunk ==
    (RerunPlanned /\ FirstRunPartial) =>
        \A i \in 1 .. Len(all_chunks) : all_chunks[i].type = "process"
\* a skipped chunk of the second run leaves the table as the first run left
\* it: no call of the fetch function, no row written
C35_SkippedRerunWritesNothing ==
    (run = 2 /\ pc = "done" /\ result.skipped_chunks = result.total_chunks) =>
        /\ call_no = 0
        /\ observations = snapshot

\* the columns of the observations table declared NOT NULL
NotNullColumns == {"observation_date", "species_name", "latitude", "longitude", "api_source"}
\* the record can be inserted: its primary key and every NOT NULL column
\* hold a value
SatisfiesNotNull(rec) ==
    /\ ("given" \in DOMAIN rec.id) => rec.id.given \notin {"absent", "none"}
    /\ \A column \in NotNullColumns : rec[column] \notin {"absent", "none"}
\* C36: every record transform_artportalen_to_db_record returns has a value
\* in id, observation_date, species_name, latitude, longitude and
\* api_source, so that it satisfies the NOT NULL constraints of the
\* observations table.
C36_TransformedRecordSatisfiesNotNull ==
    (transformed # NotCalled /\ transformed # Null) => SatisfiesNotNull(transformed)
\* the columns other than species_name always hold a value
C36_OtherRequiredColumnsHoldValues ==
    (transformed # NotCalled /\ transformed # Null) =>
        /\ ("given" \in DOMAIN transformed.id) =>
              transformed.id.given \notin {"absent", "none"}
        /\ \A column \in NotNullColumns \ {"species_name"} :
              transformed[column] \notin {"absent", "none", "fails"}

\* the entry points of ingestion on their own, over a database file in any
\* state an earlier version of the program, or a run that was cut short,
\* can have left
InitEntry ==
    /\ observations = {}
    /\ start_date = Midnight(WindowStart)
    /\ end_date = EndOfDay(WindowStart)
    /\ DefaultArguments
    /\ same_fetch = FALSE
    /\ Constructed
    /\ TransformIdle
    /\ connection = "open"
    /\ observations_table \in BOOLEAN
    /\ schema_version \in {NoTable} \cup {Table(rows) : rows \in SUBSET StoredVersions}
    /\ schema_log = <<>>
    /\ RouterIdle
    /\ MergeIdle
    /\ ManagerIdle
    /\ CoverageIdle
    /\ DedupIdle
NextEntry == load_historical_data \/ run_ingestion_job
SpecEntry == InitEntry /\ [][NextEntry]_vars

EntryPoints == {"load_historical_data", "run_ingestion_job"}
\* an entry point has just gone on to ingest
IngestionStarts ==
    /\ Len(schema_log') = Len(schema_log) + 1
    /\ schema_log'[Len(schema_log')].op \in EntryPoints
    /\ schema_log'[Len(schema_log')].returned
\* validate_schema fails on the store because of its version: the
\* observations table is there and the stored version is not SCHEMA_VERSION
VersionDiffers ==
    /\ observations_table
    /\ StoredVersion(connection, schema_version) \notin {NoVersion, <<SCHEMA_VERSION>>}
\* C37: an entry point goes on to ingest only into a store for which
\* validate_schema holds; when the stored version differs from
\* SCHEMA_VERSION nothing is upserted into that store.
C37_IngestionOnlyOnValidStore ==
    [][(VersionDiffers /\ IngestionStarts) =>
          SchemaIsValid(connection, observations_table', schema_version')]_vars
\* a store that is valid when the entry point starts is ingested into as it
\* is
C37_ValidStoreIsLeftAlone ==
    [][(IngestionStarts /\ SchemaIsValid(connection, observations_table, schema_version)) =>
          /\ observations_table' = observations_table
          /\ schema_version' = schema_version]_vars

\* the count probe of the chunk in hand has just raised
ProbeRaises ==
    /\ pc = "split"
    /\ todo # <<>>
    /\ call_no' = call_no + 1
    /\ last_response' = "raise"
\* C38: when the count probe for a chunk raises, the chunk is not split: it
\* is emitted whole as one 'process' chunk, nothing is written, and the
\* planning goes on with the remaining chunks.
C38_RaisingProbeKeepsChunkWhole ==
    [][ProbeRaises =>
          /\ all_chunks' = Append(all_chunks, [start |-> todo[1].start, end |-> todo[1].end,
                                               type |-> "process"])
          /\ todo' = Tail(todo)
          /\ pc' = "split"
          /\ observations' = observations
          /\ total_failed' = total_failed]_vars
\* the probe of the first of two monthly chunks raised: the chunk is in the
\* plan as it was, and the second chunk is still to be planned
C38_Witness ==
    /\ pc = "split"
    /\ call_no = 1
    /\ last_response = "raise"
    /\ Len(all_chunks) = 1
    /\ all_chunks[1] = [start |-> monthly_chunks[1].start, end |-> monthly_chunks[1].end,
                        type |-> "process"]
    /\ Len(monthly_chunks) = 2
    /\ todo = <<monthly_chunks[2]>>

\* the records of the input lists, in their order
InputRecords == results_list[1] \o results_list[2]
\* the first of two fields that holds a value (is not None)
FirstPresent(a, b) == IF a # <<>> THEN a ELSE b
\* the deduplication key as the specification words it: the rounded
\* coordinates, the date and the species, or the date and the species when
\* a coordinate is missing
KeyWithCoordinates(record) ==
    LET lat == FirstPresent(record.latitude, record.decimalLatitude)
        lon == FirstPresent(record.longitude, record.decimalLongitude)
    IN  IF lat # <<>> /\ lon # <<>>
        THEN <<Round4(lat[1]), Round4(lon[1]), record.eventDate, record.species>>
        ELSE <<record.eventDate, record.species>>
\* the positions of a sequence of keys that hold the first occurrence of
\* their key
FirstPositions(keys) == {i \in 1 .. Len(keys) : \A j \in 1 .. (i - 1) : keys[j] # keys[i]}
\* the elements of s at the positions P, from position i on, in their order
RECURSIVE PickFrom(_, _, _)
PickFrom(s, P, i) ==
    IF i > Len(s) THEN <<>>
    ELSE (IF i \in P THEN <<s[i]>> ELSE <<>>) \o PickFrom(s, P, i + 1)
\* C39: _deduplicate_results returns, in their original order, the first
\* record of each deduplication key (rounded latitude, rounded longitude,
\* date, species; or date, species when a coordinate is missing) and drops
\* every later one; its output has pairwise distinct keys and is left as it
\* is by another application.
C39_FirstRecordOfEachKeyIsKept ==
    deduplicated # NotDeduplicated =>
        LET out == deduplicated[1]
            keys == [i \in 1 .. Len(InputRecords) |-> KeyWithCoordinates(InputRecords[i])]
        IN  /\ out = PickFrom(InputRecords, FirstPositions(keys), 1)
            /\ \A i, j \in 1 .. Len(out) :
                  i # j => KeyWithCoordinates(out[i]) # KeyWithCoordinates(out[j])
            /\ DeduplicateResults(<<out>>) = out
\* with the key the function computes, which takes a coordinate of 0.0 for
\* a missing one, the output is the first record of each key in the
\* original order, has distinct keys and is a fixed point
C39_FirstRecordOfEachComputedKeyIsKept ==
    deduplicated # NotDeduplicated =>
        LET out == deduplicated[1]
            keys == [i \in 1 .. Len(InputRecords) |-> KeyOf(InputRecords[i])]
        IN  /\ out = PickFrom(InputRecords, FirstPositions(keys), 1)
            /\ \A i, j \in 1 .. Len(out) : i # j => KeyOf(out[i]) # KeyOf(out[j])
            /\ DeduplicateResults(<<out>>) = out

\* the calls of progress_callback of one step: each within 0 .. total, and
\* none behind the one before it.  (A step that leaves progress as it is
\* made no call, or made the one call of the step before once more.)
ProgressInRange(made) ==
    /\ \A i \in 1 .. Len(made) : 0 <= made[i].current /\ made[i].current <= made[i].total
    /\ \A i \in 1 .. (Len(made) - 1) : made[i].current <= made[i + 1].current
\* C40: across one run of process_date_range every call of
\* progress_callback has 0 <= current <= total, and current never decreases
\* from one call to the next, for every mix of skipped, empty, completed
\* and failed chunks.
C40_ProgressIsBoundedAndMonotonic ==
    [][/\ ProgressInRange(progress')
       /\ (progress # <<>> /\ progress' # <<>> /\ progress' # progress) =>
             /\ progress[Len(progress)].current <= progress'[1].current
             /\ progress'[1].total = progress[Len(progress)].total]_vars
\* the second of two chunks failed on its first page after the first was
\* skipped: the callback was called with (1, 2) when the fetch began and
\* with (2, 2) when it failed
C40_Witness ==
    /\ status = <<"SKIPPED", "FAILED">>
    /\ progress = <<[current |-> 1, total |-> 2], [current |-> 2, total |-> 2]>>
    /\ processed_chunks = 2

====
